---------------------------- MODULE Spec2Model ----------------------------
(***************************************************************************)
(* OpChan Core: delegated signing, message verification and the local      *)
(* replica (LocalDatabase.applyMessage), modelled from the SDK's           *)
(* architecture guide and API reference.                                   *)
(*                                                                         *)
(* Strings are atoms.  Message ids are fixed-width hexadecimal strings, so *)
(* their lexicographic order is the numeric order: ids are naturals.       *)
(* Timestamps are small naturals standing for epoch milliseconds.          *)
(***************************************************************************)
EXTENDS Integers, FiniteSets, Sequences, TLC

VARIABLES
    db,          \* replica -> LocalDatabase state (cache, processedMessageIds, lastSync)
    last,        \* the last applyMessage call: replica, message, return value
    probe,       \* the message a peer hands to verify / applyMessage (verification runs)
    now,         \* Date.now() of the local client
    delegation,  \* DelegationStorage: the stored delegation, {} when none
    out,         \* the last signMessage / forum action call and what it returned
    signedLog,   \* every message signMessage has returned, with verify's answer then
    pending,     \* LocalDatabase pending ids of the local client
    sent,        \* messages handed to MessageManager.sendMessage
    result,      \* what the last delegate / forum action call returned
    inflight,    \* messages whose applyMessage awaits validation
    writes,      \* IndexedDB writes issued and not yet settled, oldest first
    durable,     \* what IndexedDB holds
    accepted,    \* the messages applyMessage has accepted, in order
    snapshot,    \* the cache as it was when the page was last closed
    job,         \* the forum action in progress and the step it has reached
    events,      \* the steps the forum actions have taken, in order
    listeners,   \* the registered onPendingChange listeners
    notices,     \* per markPending / clearPending call: who was notified of what
    identity,    \* UserIdentityService: cache entry, debounce timer, lookups, answers
    following,   \* LocalDatabase.cache.following: id -> Following
    bookmarks,   \* LocalDatabase.cache.bookmarks: id -> Bookmark
    scoring      \* RelevanceCalculator: the inputs of a post and the scores computed

vars == <<db, last, probe, now, delegation, out, signedLog, pending, sent,
          result, inflight, writes, durable, accepted, snapshot, job, events,
          listeners, notices, identity, following, bookmarks, scoring>>

\* The state the ingress, verification and signing runs leave alone
rest == <<result, inflight, writes, durable, accepted, snapshot, job, events,
          listeners, notices, identity, following, bookmarks, scoring>>

\* The device-local state the network and the forum actions leave alone
local == <<identity, following, bookmarks, scoring>>

-----------------------------------------------------------------------------
(* Bounds of the model *)

MaxTs == 2        \* message timestamps range over 1..MaxTs
MaxNow == 3       \* the local clock runs over 1..MaxNow

-----------------------------------------------------------------------------
(* Strings of the protocol *)

Keys == {"K1", "K2"}                 \* Ed25519 browser public keys (hex)
Wallets == {"0xW1", "0xW2"}          \* wallet addresses
UuidV4s == {"uuid4-a"}               \* version-4 UUIDs (crypto.randomUUID())
UuidOthers == {"uuid1-b"}            \* 8-4-4-4-12 hex strings that are not version 4
Junk == {"bob"}                      \* neither an address nor UUID shaped
Authors == Wallets \cup UuidV4s \cup UuidOthers \cup Junk

\* /^[0-9a-f]{8}-[0-9a-f]{4}-[0-9a-f]{4}-[0-9a-f]{4}-[0-9a-f]{12}$/i.test(author):
\* the pattern fixes the grouping and the hex alphabet, not the version nibble.
UuidRegexTest(author) == author \in UuidV4s \cup UuidOthers

\* Text fragments.  A text is modelled by the fragments it is composed of and
\* String.includes by membership of a fragment: 64-hex keys, addresses and the
\* renderings of a 13-digit millisecond timestamp do not occur inside each other.
Str(s) == [fmt |-> "raw", num |-> 0, str |-> s]
\* Number.prototype.toString(): the decimal digits of n
NumberToString(n) == [fmt |-> "dec", num |-> n, str |-> ""]
\* new Date(n).toISOString(): "YYYY-MM-DDTHH:mm:ss.sssZ"
ToISOString(n) == [fmt |-> "iso", num |-> n, str |-> ""]

Includes(text, fragment) == fragment \in text

-----------------------------------------------------------------------------
(* Crypto primitives: a signature is the pair it was made from *)

Ed25519Sign(payload, privateKey) == [payload |-> payload, key |-> privateKey]
Ed25519Verify(signature, payload, publicKey) ==
    signature = [payload |-> payload, key |-> publicKey]

WalletSign(text, wallet) == [text |-> text, wallet |-> wallet]
VerifyWalletSignature(text, signature, address) ==
    signature = [text |-> text, wallet |-> address]

-----------------------------------------------------------------------------
(* Messages *)

\* An unsigned message is [type, id, timestamp, author, body]; a signed one adds
\* signature, browserPubKey and delegationProof.  The optional fields signature
\* and delegationProof hold a set: {} when absent, {x} when present.

CellBody(name) == [name |-> name, description |-> "d"]
PostBody(cellId, title, content) == [cellId |-> cellId, title |-> title, content |-> content]
CommentBody(postId, content) == [postId |-> postId, content |-> content]
VoteBody(targetId, value) == [targetId |-> targetId, value |-> value]
ModerateBody(action, targetType, targetId, cellId) ==
    [action |-> action, targetType |-> targetType, targetId |-> targetId, cellId |-> cellId]

Unsigned(type, id, timestamp, author, body) ==
    [type |-> type, id |-> id, timestamp |-> timestamp, author |-> author, body |-> body]

\* JSON.stringify({...message, signature: undefined, browserPubKey: undefined,
\* delegationProof: undefined}): the three keys are dropped, every other field
\* is serialised.
MessagePayload(m) ==
    [type |-> m.type, id |-> m.id, timestamp |-> m.timestamp,
     author |-> m.author, body |-> m.body]

\* The signed message: {...unsignedMessage, signature, browserPubKey, delegationProof}
Attach(u, signature, browserPubKey, delegationProof) ==
    [type |-> u.type, id |-> u.id, timestamp |-> u.timestamp, author |-> u.author,
     body |-> u.body, signature |-> signature, browserPubKey |-> browserPubKey,
     delegationProof |-> delegationProof]

\* The authorization message delegate() composes and the wallet signs:
\*   Public Key: ${keypair.publicKey} / Wallet: ${walletAddress} /
\*   Expires: ${new Date(expiryTimestamp).toISOString()} / Nonce: ${nonce}
CreateAuthMessage(publicKey, walletAddress, expiryTimestamp, nonce) ==
    {Str(publicKey), Str(walletAddress), ToISOString(expiryTimestamp), Str(nonce)}

DelegationProof(authMessage, walletSignature, expiryTimestamp, walletAddress) ==
    [authMessage |-> authMessage, walletSignature |-> walletSignature,
     expiryTimestamp |-> expiryTimestamp, walletAddress |-> walletAddress]

-----------------------------------------------------------------------------
(* DelegationManager.verify *)

\* 1. Checks required fields (signature, browserPubKey, author)
HasSignatureFields(m) ==
    m.signature # {} /\ m.browserPubKey # "" /\ m.author # ""

\* The proof check without the test that the authorization message names
\* the browser key of the message
VerifyDelegationProof_NoKeyCheck(m, p) ==
    /\ [text |-> p.authMessage, wallet |-> p.walletAddress] = p.walletSignature
    /\ Str(p.walletAddress) \in p.authMessage
    /\ NumberToString(p.expiryTimestamp) \in p.authMessage

\* The delegation-proof branch of verifyMessage
VerifyDelegationProof(m, p) ==
    /\ VerifyWalletSignature(p.authMessage, p.walletSignature, p.walletAddress)
    /\ Includes(p.authMessage, Str(m.browserPubKey))
    /\ Includes(p.authMessage, Str(p.walletAddress))
    /\ Includes(p.authMessage, NumberToString(p.expiryTimestamp))

\* A verify that also consults the clock and the delegation the client stores
VerifyMessage_NeedsStoredDelegation(m) ==
    /\ m.signature # {} /\ m.browserPubKey # "" /\ m.author # ""
    /\ \A sg \in m.signature : sg = [payload |-> MessagePayload(m), key |-> m.browserPubKey]
    /\ IF m.delegationProof # {}
       THEN \A p \in m.delegationProof : VerifyDelegationProof_NoKeyCheck(m, p)
                                            /\ Str(m.browserPubKey) \in p.authMessage
       ELSE UuidRegexTest(m.author)
    /\ \E d \in delegation : d.browserPublicKey = m.browserPubKey /\ now < d.expiryTimestamp

VerifyMessage(m) ==
    /\ HasSignatureFields(m)
    /\ \A s \in m.signature : Ed25519Verify(s, MessagePayload(m), m.browserPubKey)
    /\ IF m.delegationProof # {}
       THEN \A p \in m.delegationProof : VerifyDelegationProof(m, p)
       ELSE UuidRegexTest(m.author)

-----------------------------------------------------------------------------
(* MessageValidator *)

MessageTypes == {"cell", "post", "comment", "vote", "moderate"}
ModerationActions == {"moderate", "unmoderate"}
TargetTypes == {"post", "comment", "user"}
MaxTitleLength == 300
MaxContentLength == 10000

\* author is a 20-byte hex address or a version-4 UUID
IsValidAuthor(author) == author \in Wallets \cup UuidV4s

\* The last timestamp of the sensible range: later ones are far in the future
MaxTimestamp == MaxTs + MaxNow + 1

\* A body check without the upper limits of title and content
IsValidBody_NoUpperLimit(type, body) ==
    CASE type = "cell" -> body.name # ""
      [] type = "post" -> body.title >= 1 /\ body.content >= 1
      [] type = "comment" -> body.content >= 1
      [] type = "vote" -> body.value \in {1, -1}
      [] type = "moderate" -> /\ body.action \in ModerationActions
                              /\ body.targetType \in TargetTypes
      [] OTHER -> FALSE

\* Titles and bodies are modelled by their length.
IsValidBody(type, body) ==
    CASE type = "cell" -> body.name # ""
      [] type = "post" -> /\ body.title >= 1 /\ body.title <= MaxTitleLength
                          /\ body.content >= 1 /\ body.content <= MaxContentLength
      [] type = "comment" -> body.content >= 1 /\ body.content <= MaxContentLength
      [] type = "vote" -> body.value \in {1, -1}
      [] type = "moderate" -> /\ body.action \in ModerationActions
                              /\ body.targetType \in TargetTypes
      [] OTHER -> FALSE

\* Structural validation of one message
IsValidStructure(m) ==
    /\ m.type \in MessageTypes
    /\ m.timestamp > 0
    /\ m.timestamp <= MaxTimestamp
    /\ IsValidAuthor(m.author)
    /\ IsValidBody(m.type, m.body)

\* MessageValidator.isValidMessage: required fields, then the signature,
\* then the delegation proof or the anonymous session id
IsValidMessage(m) == IsValidStructure(m) /\ VerifyMessage(m)

-----------------------------------------------------------------------------
(* LocalDatabase *)

Replicas == {"A", "B"}

EmptyMap == [k \in {} |-> {}]
Put(map, key, value) ==
    [k \in DOMAIN map \cup {key} |-> IF k = key THEN value ELSE map[k]]

EmptyDatabase ==
    [cells |-> EmptyMap, posts |-> EmptyMap, comments |-> EmptyMap,
     votes |-> EmptyMap, moderations |-> EmptyMap,
     processed |-> {}, lastSync |-> {}]

\* const messageKey = `${message.type}:${message.id}:${message.timestamp}`
MessageKey(m) == <<m.type, m.id, m.timestamp>>
\* votes[targetId:author]
VoteKey(m) == <<m.body.targetId, m.author>>
\* moderations[(cell_id, target_kind, target_id)]
ModerationKey(m) == <<m.body.cellId, m.body.targetType, m.body.targetId>>

\* An insert that replaces the message an id already holds
InsertIfAbsent_Overwrites(map, key, m) == Put(map, key, m)

InsertIfAbsent(map, key, m) == IF key \in DOMAIN map THEN map ELSE Put(map, key, m)

\* Vote: upsert the (target_id, author) slot iff the incoming timestamp is
\* strictly greater than the stored one
\* A votes map where an equally timed vote replaces the stored one
UpsertVote_ReplacesOnTie(votes, m) ==
    LET key == VoteKey(m) IN
    IF key \notin DOMAIN votes \/ m.timestamp >= votes[key].timestamp
    THEN Put(votes, key, m) ELSE votes

UpsertVote(votes, m) ==
    LET key == VoteKey(m) IN
    IF key \notin DOMAIN votes \/ m.timestamp > votes[key].timestamp
    THEN Put(votes, key, m) ELSE votes

\* A moderations map where the last arrival wins
UpsertModeration_LastArrivalWins(moderations, m) ==
    [k \in DOMAIN moderations \cup {<<m.body.cellId, m.body.targetType, m.body.targetId>>} |->
        IF k = <<m.body.cellId, m.body.targetType, m.body.targetId>> THEN m ELSE moderations[k]]

\* Moderate: upsert by latest timestamp, ties broken by lexicographic message id
UpsertModeration(moderations, m) ==
    LET key == ModerationKey(m) IN
    IF \/ key \notin DOMAIN moderations
       \/ m.timestamp > moderations[key].timestamp
       \/ /\ m.timestamp = moderations[key].timestamp
          /\ m.id > moderations[key].id
    THEN Put(moderations, key, m) ELSE moderations

\* Step 3 of applyMessage: store in the appropriate cache collection
StoreMessage(d, m) ==
    CASE m.type = "cell" -> [d EXCEPT !.cells = InsertIfAbsent(@, m.id, m)]
      [] m.type = "post" -> [d EXCEPT !.posts = InsertIfAbsent(@, m.id, m)]
      [] m.type = "comment" -> [d EXCEPT !.comments = InsertIfAbsent(@, m.id, m)]
      [] m.type = "vote" -> [d EXCEPT !.votes = UpsertVote(@, m)]
      [] m.type = "moderate" -> [d EXCEPT !.moderations = UpsertModeration(@, m)]
      [] OTHER -> d

\* An updateLastSync that takes the timestamp of the last message applied
UpdateLastSync_LastApplied(lastSync, timestamp) == {timestamp}

\* updateLastSync(timestamp): last_sync = max(last_sync, timestamp)
UpdateLastSync(lastSync, timestamp) ==
    IF lastSync = {} \/ \A t \in lastSync : timestamp > t THEN {timestamp} ELSE lastSync

\* An applyMessage that skips validation
ApplyResult_SkipsValidation(d, m) == <<m.type, m.id, m.timestamp>> \notin d.processed

\* An applyMessage that skips the duplicate check
ApplyResult_SkipsDuplicateCheck(d, m) == IsValidMessage(m)

\* The return value of applyMessage(m) on database d
ApplyResult(d, m) == IsValidMessage(m) /\ MessageKey(m) \notin d.processed

\* An applyMessage that has stored the message but not yet its processed key
\* when it hands the write to IndexedDB
ApplyState_SeenAfterWrite(d, m) ==
    IF ApplyResult(d, m) THEN StoreMessage(d, m) ELSE d

\* The database after applyMessage(m)
ApplyState(d, m) ==
    IF ApplyResult(d, m)
    THEN [StoreMessage(d, m) EXCEPT
             !.processed = @ \cup {MessageKey(m)},
             !.lastSync = UpdateLastSync(@, m.timestamp)]
    ELSE d

NoCall == [replica |-> "", msg |-> {}, ret |-> FALSE]

\* LocalDatabase.applyMessage(message) on replica r
ApplyMessage(r, m) ==
    /\ db' = [db EXCEPT ![r] = ApplyState(db[r], m)]
    /\ last' = [replica |-> r, msg |-> {m}, ret |-> ApplyResult(db[r], m)]

\* Every message one of the five primary indexes of d holds
Stored(d) ==
    {d.cells[k] : k \in DOMAIN d.cells} \cup {d.posts[k] : k \in DOMAIN d.posts}
    \cup {d.comments[k] : k \in DOMAIN d.comments}
    \cup {d.votes[k] : k \in DOMAIN d.votes}
    \cup {d.moderations[k] : k \in DOMAIN d.moderations}

-----------------------------------------------------------------------------
(* Messages on the network *)

\* A message signed by a peer's anonymous session (no delegation proof)
SignAnonymous(u, key) ==
    Attach(u, {Ed25519Sign(MessagePayload(u), key)}, key, {})

\* The delegation proof of a peer whose authorization message carries the
\* expiry as the decimal timestamp
PeerAuthMessage(key, wallet, expiry) ==
    {Str(key), Str(wallet), NumberToString(expiry), Str("nonce")}
PeerProof(key, wallet, expiry) ==
    DelegationProof(PeerAuthMessage(key, wallet, expiry),
                    WalletSign(PeerAuthMessage(key, wallet, expiry), wallet),
                    expiry, wallet)

\* A message signed by a peer's wallet-authorised browser key
SignDelegated(u, key, wallet, expiry) ==
    Attach(u, {Ed25519Sign(MessagePayload(u), key)}, key, {PeerProof(key, wallet, expiry)})

PeerExpiry == MaxTs + 1

VoteIds == {1, 2}
ModerationIds == {1, 2}

PoolCell == SignDelegated(Unsigned("cell", 1, 1, "0xW1", CellBody("general")), "K2", "0xW1", PeerExpiry)
PoolPost == SignAnonymous(Unsigned("post", 1, 1, "uuid4-a", PostBody(1, 2, 5)), "K1")
PoolComment == SignAnonymous(Unsigned("comment", 1, MaxTs, "uuid4-a", CommentBody(1, 5)), "K1")

\* Votes of one author on post 1: every id at every timestamp
PoolVote(id, ts) ==
    SignAnonymous(Unsigned("vote", id, ts, "uuid4-a",
                           VoteBody(1, IF id = 1 THEN 1 ELSE -1)), "K1")
PoolVotes == {PoolVote(id, ts) : id \in VoteIds, ts \in 1..MaxTs}

\* Moderation messages of the owner of cell 1 on post 1
PoolModeration(id, ts) ==
    SignDelegated(Unsigned("moderate", id, ts, "0xW1",
                           ModerateBody(IF id = 1 THEN "moderate" ELSE "unmoderate",
                                        "post", 1, 1)),
                  "K2", "0xW1", PeerExpiry)
PoolModerations == {PoolModeration(id, ts) : id \in ModerationIds, ts \in 1..MaxTs}

\* Messages applyMessage must reject
\* a vote whose value was changed after signing
TamperedVote == [PoolVote(3, 1) EXCEPT !.body = VoteBody(1, 1)]
\* a signed vote with timestamp zero
ZeroTimestampVote == PoolVote(1, 0)
\* a wallet author without a delegation proof
NoProofPost == SignAnonymous(Unsigned("post", 2, 1, "0xW1", PostBody(1, 2, 5)), "K1")
InvalidPool == {TamperedVote, ZeroTimestampVote, NoProofPost}

\* What the network delivers to the replica of the ingress runs
Pool ==
    {PoolCell, PoolPost, PoolComment, PoolModeration(1, 1),
     PoolVote(1, 1), PoolVote(2, 1), PoolVote(2, MaxTs)} \cup InvalidPool

\* What it delivers in the runs about the votes and moderations slots
MergePool == PoolVotes \cup PoolModerations

\* What it delivers to both replicas of the convergence runs
ConvergePool == {PoolPost} \cup PoolVotes

-----------------------------------------------------------------------------
(* The ingress pipeline of one replica *)

NoSign == [op |-> "", signed |-> {}, at |-> 0, delegation |-> {}]

\* The local client before its first call; Date.now() is positive
Quiet ==
    /\ now = 1
    /\ delegation = {}
    /\ out = NoSign
    /\ signedLog = {}
    /\ pending = {}
    /\ sent = {}

NoResult == [op |-> "", success |-> FALSE, error |-> ""]
NoJob == [step |-> "idle", op |-> "", msg |-> {}]

\* Nothing in progress, IndexedDB empty, nobody listening
\* UserIdentityService before any call: nothing cached, no timer, no lookup
NoScoring == [input |-> {}, previous |-> {}, latest |-> {}]

NoIdentity == [cache |-> {}, waiting |-> {}, lookups |-> {}, started |-> 0, returned |-> {}]

Idle ==
    /\ result = NoResult
    /\ inflight = {}
    /\ writes = <<>>
    /\ durable = EmptyDatabase
    /\ accepted = <<>>
    /\ snapshot = {}
    /\ job = NoJob
    /\ events = <<>>
    /\ listeners = {}
    /\ notices = <<>>
    /\ identity = NoIdentity
    /\ following = EmptyMap
    /\ bookmarks = EmptyMap
    /\ scoring = NoScoring

Init ==
    /\ db = [r \in Replicas |-> EmptyDatabase]
    /\ last = NoCall
    /\ probe = {}
    /\ Quiet
    /\ Idle

\* MessageService.onMessageReceived -> LocalDatabase.applyMessage
Receive(m) ==
    /\ ApplyMessage("A", m)
    /\ UNCHANGED <<probe, now, delegation, out, signedLog, pending, sent>>
    /\ UNCHANGED rest

Next == \E m \in Pool : Receive(m)

Spec == Init /\ [][Next]_vars

\* The same handler, delivered to replica r, its return value not recorded
Deliver(r, m) ==
    /\ db' = [db EXCEPT ![r] = ApplyState(db[r], m)]
    /\ UNCHANGED <<last, probe, now, delegation, out, signedLog, pending, sent>>
    /\ UNCHANGED rest

NextMerge == \E m \in MergePool : Deliver("A", m)

SpecMerge == Init /\ [][NextMerge]_vars

NextConverge == \E r \in Replicas, m \in ConvergePool : Deliver(r, m)

SpecConverge == Init /\ [][NextConverge]_vars

-----------------------------------------------------------------------------
(* verify and applyMessage on one message a peer has crafted *)

ExpiryFormats == {"iso", "dec"}

\* An authorization message naming key and wallet, its expiry written in
\* format fmt, signed by the wallet signer
ProbeAuthMessage(key, wallet, fmt) ==
    IF fmt = "iso" THEN CreateAuthMessage(key, wallet, PeerExpiry, "nonce")
    ELSE PeerAuthMessage(key, wallet, PeerExpiry)
ProbeProof(key, wallet, fmt, signer) ==
    DelegationProof(ProbeAuthMessage(key, wallet, fmt),
                    WalletSign(ProbeAuthMessage(key, wallet, fmt), signer),
                    PeerExpiry, wallet)
ProbeProofs ==
    {ProbeProof(k, w, f, s) : k \in Keys, w \in Wallets, f \in ExpiryFormats, s \in Wallets}

\* The post of author a, or the same post with its content changed
ProbeUnsigned(a, changed) ==
    Unsigned("post", 1, 1, a, PostBody(1, 2, IF changed THEN 6 ELSE 5))

\* Every message made of: an author, a signature by some key over the post
\* or over the changed post (or no signature), a browserPubKey (or none),
\* and a delegation proof (or none)
ProbeSignatures(a) ==
    {{}} \cup {{Ed25519Sign(MessagePayload(ProbeUnsigned(a, c)), k)} :
                  k \in Keys, c \in BOOLEAN}
ProbeMessages ==
    UNION {{Attach(ProbeUnsigned(a, FALSE), sig, pk, proof) :
               sig \in ProbeSignatures(a),
               pk \in Keys \cup {""},
               proof \in {{}} \cup {{p} : p \in ProbeProofs}} : a \in Authors}

InitVerify ==
    /\ db = [r \in Replicas |-> EmptyDatabase]
    /\ last = NoCall
    /\ probe \in {{m} : m \in ProbeMessages}
    /\ Quiet
    /\ Idle

\* The peer's message arrives: LocalDatabase.applyMessage(message)
Submit ==
    /\ \E m \in probe : ApplyMessage("A", m)
    /\ UNCHANGED <<probe, now, delegation, out, signedLog, pending, sent>>
    /\ UNCHANGED rest

NextVerify == Submit

SpecVerify == InitVerify /\ [][NextVerify]_vars

-----------------------------------------------------------------------------
(* DelegationManager and ForumActions of the local client *)

Durations == {"7days", "30days"}

\* The validity period, in clock ticks: the shorter one is one tick
DurationTicks(duration) == IF duration = "7days" THEN 1 ELSE 2

\* The wallet the local user can connect
ClientWallets == {"0xW1"}

WalletDelegationInfo(authMessage, walletSignature, expiryTimestamp, walletAddress, keypair) ==
    [authMessage |-> authMessage,
     walletSignature |-> walletSignature,
     expiryTimestamp |-> expiryTimestamp,
     walletAddress |-> walletAddress,
     browserPublicKey |-> keypair,
     browserPrivateKey |-> keypair,
     nonce |-> "nonce"]

AnonymousDelegationInfo(sessionId, expiryTimestamp, keypair) ==
    [sessionId |-> sessionId,
     browserPublicKey |-> keypair,
     browserPrivateKey |-> keypair,
     expiryTimestamp |-> expiryTimestamp,
     nonce |-> "nonce"]

IsWalletDelegation(d) == "walletAddress" \in DOMAIN d

\* delegate(address, duration, signFunction), the wallet signing what it is shown
Delegate(address, duration, keypair) ==
    /\ delegation' =
          {WalletDelegationInfo(
              CreateAuthMessage(keypair, address, now + DurationTicks(duration), "nonce"),
              WalletSign(CreateAuthMessage(keypair, address, now + DurationTicks(duration), "nonce"),
                         address),
              now + DurationTicks(duration), address, keypair)}
    /\ UNCHANGED <<db, last, probe, now, out, signedLog, pending, sent>>
    /\ UNCHANGED rest

\* delegateAnonymous(duration); crypto.randomUUID() is a version-4 UUID
DelegateAnonymous(duration, keypair, sessionId) ==
    /\ delegation' = {AnonymousDelegationInfo(sessionId, now + DurationTicks(duration), keypair)}
    /\ UNCHANGED <<db, last, probe, now, out, signedLog, pending, sent>>
    /\ UNCHANGED rest

\* clear()
Clear ==
    /\ delegation # {}
    /\ delegation' = {}
    /\ UNCHANGED <<db, last, probe, now, out, signedLog, pending, sent>>
    /\ UNCHANGED rest

\* The delegation is valid (not expired)
IsDelegationValid(d) == now < d.expiryTimestamp

\* What signMessage attaches for delegation d
ProofOf(d) ==
    IF IsWalletDelegation(d)
    THEN {DelegationProof(d.authMessage, d.walletSignature, d.expiryTimestamp, d.walletAddress)}
    ELSE {}

\* A signMessage that does not look at the expiry
SignMessage_NoExpiryCheck(u) ==
    {Attach(u, {Ed25519Sign(MessagePayload(u), d.browserPrivateKey)},
            d.browserPublicKey, ProofOf(d)) : d \in delegation}

\* signMessage(message): {} is null
SignMessage(u) ==
    {Attach(u, {Ed25519Sign(MessagePayload(u), d.browserPrivateKey)},
            d.browserPublicKey, ProofOf(d)) :
        d \in {e \in delegation : IsDelegationValid(e)}}

\* The address of the current user: the one of the stored delegation
UserAddress(d) == IF IsWalletDelegation(d) THEN d.walletAddress ELSE d.sessionId
CurrentUsers ==
    IF delegation = {} THEN ClientWallets ELSE {UserAddress(d) : d \in delegation}

\* The UUIDs the local client draws for its messages, and those not yet used
ClientPostIds == {1, 2}
UnusedIds == ClientPostIds \ {e.msg.id : e \in signedLog}

\* The next fresh message id of the local client
FreshId == CHOOSE i \in UnusedIds : \A j \in UnusedIds : i <= j

LogEntry(m) ==
    [msg |-> m, ok |-> VerifyMessage(m),
     expiry |-> {d.expiryTimestamp : d \in delegation}]

\* ForumActions.createPost: assemble, sign, apply, mark pending, send
CreatePost(user) ==
    LET u == Unsigned("post", FreshId, now, user, PostBody(1, 2, 5))
        signed == SignMessage(u)
    IN
    /\ UnusedIds # {}
    /\ out' = [op |-> "createPost", signed |-> signed, at |-> now, delegation |-> delegation]
    /\ IF signed = {}
       THEN UNCHANGED <<db, signedLog, pending, sent>>
       ELSE /\ db' = [db EXCEPT !["A"] = ApplyState(db["A"], CHOOSE m \in signed : TRUE)]
            /\ signedLog' = signedLog \cup {LogEntry(m) : m \in signed}
            /\ pending' = pending \cup {m.id : m \in signed}
            /\ sent' = sent \cup signed
    /\ UNCHANGED <<last, probe, now, delegation>>
    /\ UNCHANGED rest

\* Date.now() advances
Tick ==
    /\ now < MaxNow
    /\ now' = now + 1
    /\ UNCHANGED <<db, last, probe, delegation, out, signedLog, pending, sent>>
    /\ UNCHANGED rest

\* DelegationCrypto.generateKeypair() never returns the stored key again
FreshKeys == Keys \ {d.browserPublicKey : d \in delegation}

NextClient ==
    \/ \E a \in ClientWallets, d \in Durations, k \in FreshKeys : Delegate(a, d, k)
    \/ \E d \in Durations, k \in FreshKeys, id \in UuidV4s : DelegateAnonymous(d, k, id)
    \/ Clear
    \/ \E user \in CurrentUsers : CreatePost(user)
    \/ Tick

SpecClient == Init /\ [][NextClient]_vars

-----------------------------------------------------------------------------
(* Claims about the ingress pipeline *)

Valid(m) == IsValidStructure(m) /\ VerifyMessage(m)

\* C1: every message held in cells, posts, comments, votes or moderations
\* passed structural validation and verify; an applyMessage call whose message
\* fails either check returns false and leaves the indexes, the processed
\* keys, the pending set and lastSync unchanged.
OnlyValidMessagesStored ==
    /\ [](\A m \in Stored(db["A"]) : Valid(m))
    /\ [](\A m \in last.msg : ~Valid(m) => last.ret = FALSE)
    /\ [][\A m \in Pool : (Receive(m) /\ ~Valid(m)) =>
              (db' = db /\ pending' = pending)]_vars

\* An invalid message has just been applied to a replica that holds messages
RejectedOnPopulatedReplica ==
    /\ last.msg # {}
    /\ last.msg \subseteq InvalidPool
    /\ Cardinality(Stored(db["A"])) >= 3

\* (timestamp, id) order of two messages
Later(m1, m2) ==
    \/ m1.timestamp > m2.timestamp
    \/ m1.timestamp = m2.timestamp /\ m1.id > m2.id

\* The messages of pool P replica r has accepted
Accepted(r, P) == {m \in P : MessageKey(m) \in db[r].processed}

\* The greatest of a non-empty set of messages with distinct (timestamp, id)
Latest(S) == CHOOSE m \in S : \A o \in S \ {m} : Later(m, o)

\* C7, as claimed: of the accepted votes of one (target_id, author) slot the
\* votes map holds the one with the greatest timestamp, and among equal
\* timestamps the one with the greatest id.
VoteSlotHoldsLatest ==
    LET acc == Accepted("A", PoolVotes) IN
    acc # {} =>
        /\ DOMAIN db["A"].votes = {VoteKey(v) : v \in acc}
        /\ \A v \in acc : db["A"].votes[VoteKey(v)] = Latest(acc)

\* The five index maps of a replica
Indexes(d) == <<d.cells, d.posts, d.comments, d.votes, d.moderations>>

\* C5, as claimed: two replicas that have been given the same set of valid
\* messages, in any order and with repeats, hold the same cells, posts,
\* comments, votes and moderations.
ReplicasConverge ==
    Accepted("A", ConvergePool) = Accepted("B", ConvergePool) =>
        Indexes(db["A"]) = Indexes(db["B"])

\* The slot of message m already holds a message that m does not replace
Superseded(d, m) ==
    CASE m.type = "vote" ->
            /\ VoteKey(m) \in DOMAIN d.votes
            /\ d.votes[VoteKey(m)].timestamp >= m.timestamp
      [] m.type = "moderate" ->
            /\ ModerationKey(m) \in DOMAIN d.moderations
            /\ ~Later(m, d.moderations[ModerationKey(m)])
      [] m.type = "cell" -> m.id \in DOMAIN d.cells
      [] m.type = "post" -> m.id \in DOMAIN d.posts
      [] m.type = "comment" -> m.id \in DOMAIN d.comments
      [] OTHER -> FALSE

IsModerated(d, key) ==
    /\ key \in DOMAIN d.moderations
    /\ d.moderations[key].body.action = "moderate"

\* C8: the moderations map holds, for each (cell, target type, target) key,
\* the accepted moderation message with the greatest timestamp, ties broken
\* by the greatest id, so the target is moderated exactly when that message
\* is a Moderate; a Moderate delivered after a later Unmoderate of the same
\* key was accepted changes nothing.
LatestModerationWins ==
    /\ [](LET acc == Accepted("A", PoolModerations) IN
          acc # {} =>
              /\ DOMAIN db["A"].moderations = {ModerationKey(m) : m \in acc}
              /\ \A m \in acc :
                    /\ db["A"].moderations[ModerationKey(m)] = Latest(acc)
                    /\ IsModerated(db["A"], ModerationKey(m))
                          <=> Latest(acc).body.action = "moderate")
    /\ [][\A m \in PoolModerations :
              (/\ Deliver("A", m)
               /\ m.body.action = "moderate"
               /\ \E u \in Accepted("A", PoolModerations) :
                     u.body.action = "unmoderate" /\ Later(u, m))
              => db'["A"].moderations = db["A"].moderations]_vars

\* An Unmoderate and an earlier and an equally timed Moderate of one target
\* have all been accepted, and the target is not moderated
UnmoderateOutlastsModerate ==
    /\ {PoolModeration(1, 1), PoolModeration(1, MaxTs), PoolModeration(2, MaxTs)}
           \subseteq Accepted("A", PoolModerations)
    /\ ~IsModerated(db["A"], ModerationKey(PoolModeration(1, 1)))

-----------------------------------------------------------------------------
(* Claims about verify *)

\* The browser keys an authorization message names
AuthorisedKeys(p) == {k \in Keys : Includes(p.authMessage, Str(k))}

\* m carries a delegation proof and is signed by a key the proof does not name
SignedByForeignKey(m) ==
    \E p \in m.delegationProof, sg \in m.signature : sg.key \notin AuthorisedKeys(p)

\* C3: a message signed by a browser key K' other than the key K named in
\* the wallet's authorization message, carrying the wallet's delegation
\* proof for K, is rejected by verify and is never stored by applyMessage.
ForeignKeyRejected ==
    /\ \A m \in probe : SignedByForeignKey(m) => ~VerifyMessage(m)
    /\ \A m \in last.msg : SignedByForeignKey(m) => last.ret = FALSE
    /\ \A m \in Stored(db["A"]) : ~SignedByForeignKey(m)

\* applyMessage has just refused a well-formed post of a wallet author that
\* K2 signed and presents as its key, carrying the wallet's own proof for K1
ForeignKeyRefused ==
    /\ last.ret = FALSE
    /\ last.msg = {Attach(ProbeUnsigned("0xW1", FALSE),
                          {Ed25519Sign(MessagePayload(ProbeUnsigned("0xW1", FALSE)), "K2")},
                          "K2", {ProbeProof("K1", "0xW1", "dec", "0xW1")})}
    /\ \A m \in last.msg : IsValidStructure(m) /\ SignedByForeignKey(m)

\* The browser-key signature of m is present and valid
SignatureValid(m) ==
    /\ HasSignatureFields(m)
    /\ \A sg \in m.signature : Ed25519Verify(sg, MessagePayload(m), m.browserPubKey)

\* C4, as claimed: a message without a delegation proof is accepted by
\* verify iff its author has the UUIDv4 form and its signature is valid; an
\* accepted message whose author is a UUID carries no delegation proof; an
\* accepted message whose author is a wallet address carries one.
AnonymousIffUuidV4 ==
    \A m \in probe :
        /\ m.delegationProof = {} =>
              (VerifyMessage(m) <=> (m.author \in UuidV4s /\ SignatureValid(m)))
        /\ (VerifyMessage(m) /\ m.author \in UuidV4s \cup UuidOthers) =>
              m.delegationProof = {}
        /\ (VerifyMessage(m) /\ m.author \in Wallets) => m.delegationProof # {}

-----------------------------------------------------------------------------
(* Claims about signing *)

\* The messages that differ from m in one field
Tamperings(m) ==
    ({[m EXCEPT !.body = PostBody(1, 2, 6)], [m EXCEPT !.timestamp = @ + 1],
      [m EXCEPT !.id = @ + 1], [m EXCEPT !.signature = {}]}
     \cup {[m EXCEPT !.author = a] : a \in Authors}
     \cup {[m EXCEPT !.signature = {Ed25519Sign(MessagePayload(m), k)}] : k \in Keys}
     \cup {[m EXCEPT !.browserPubKey = k] : k \in Keys}
     \cup {[m EXCEPT !.delegationProof = {p}] : p \in ProbeProofs}
     \cup {[m EXCEPT !.delegationProof = {}]}) \ {m}

\* C2, as claimed: every message signMessage returns under a non-expired
\* delegation verifies, and no message that differs from it in one field
\* verifies.
SignVerifyRoundTrip ==
    \A e \in signedLog :
        /\ VerifyMessage(e.msg)
        /\ \A t \in Tamperings(e.msg) : ~VerifyMessage(t)

SignRefusesWithoutValidDelegation ==
    /\ [](out.signed # {} =>
              /\ out.delegation # {}
              /\ \A d \in out.delegation : out.at < d.expiryTimestamp)
    /\ [][\A user \in Wallets \cup UuidV4s :
              (/\ CreatePost(user)
               /\ delegation = {} \/ \E d \in delegation : d.expiryTimestamp <= now)
              => /\ out'.signed = {}
                 /\ db' = db /\ pending' = pending /\ sent' = sent
                 /\ signedLog' = signedLog
                 /\ delegation' = delegation]_vars

\* createPost has just been refused under an expired delegation, which is
\* still stored, after an earlier post went out
RefusedAfterExpiry ==
    /\ out.op = "createPost"
    /\ out.signed = {}
    /\ out.delegation # {}
    /\ delegation = out.delegation
    /\ sent # {}

-----------------------------------------------------------------------------
(* delegate with a wallet callback that may reject or sign as another wallet *)

\* What signFunction does with the authorization message: the promise
\* rejects, or it resolves to the signature of some wallet
SignFunctions == Wallets \cup {"rejects"}

\* delegate(address, duration, signFunction)
DelegateWith(address, duration, keypair, signFunction) ==
    LET expiryTimestamp == now + DurationTicks(duration)
        authMessage == CreateAuthMessage(keypair, address, expiryTimestamp, "nonce")
    IN
    /\ IF signFunction = "rejects"
       THEN /\ result' = [op |-> "delegate", success |-> FALSE, error |-> "rejected"]
            /\ UNCHANGED delegation
       ELSE /\ delegation' =
                  {WalletDelegationInfo(authMessage, WalletSign(authMessage, signFunction),
                                        expiryTimestamp, address, keypair)}
            /\ result' = [op |-> "delegate", success |-> TRUE, error |-> ""]
    /\ UNCHANGED <<db, last, probe, now, out, signedLog, pending, sent>>
    /\ UNCHANGED local
    /\ UNCHANGED <<inflight, writes, durable, accepted, snapshot, job, events,
                   listeners, notices>>

NextDelegate ==
    \/ \E a \in ClientWallets, d \in Durations, k \in FreshKeys, f \in SignFunctions :
          DelegateWith(a, d, k, f)
    \/ \E d \in Durations, k \in FreshKeys, id \in UuidV4s : DelegateAnonymous(d, k, id)
    \/ Clear
    \/ Tick

SpecDelegate == Init /\ [][NextDelegate]_vars

\* C11, as claimed: a delegate call whose wallet callback rejects, or whose
\* returned wallet signature does not verify against the authorization
\* message, returns false and stores no delegation record.
FailedDelegateStoresNothing ==
    [][\A a \in ClientWallets, d \in Durations, k \in Keys, f \in SignFunctions :
          (/\ DelegateWith(a, d, k, f)
           /\ \/ f = "rejects"
              \/ ~VerifyWalletSignature(
                     CreateAuthMessage(k, a, now + DurationTicks(d), "nonce"),
                     WalletSign(CreateAuthMessage(k, a, now + DurationTicks(d), "nonce"), f),
                     a))
          => (result'.success = FALSE /\ delegation' = delegation)]_vars

-----------------------------------------------------------------------------
(* ForumActions, one step at a time *)

VerificationStatuses == {"anonymous", "wallet-unconnected", "wallet-connected", "ens-verified"}

User(address, verificationStatus) ==
    [address |-> address, verificationStatus |-> verificationStatus]

\* The verification statuses a user of this address can have
StatusesOf(address) ==
    IF address \in Wallets
    THEN {"wallet-unconnected", "wallet-connected", "ens-verified"}
    ELSE {"anonymous"}

\* session.currentUser: nobody ({}), or the user of the stored delegation
SessionUsers ==
    {{}} \cup UNION {{{User(a, st)} : st \in StatusesOf(a)} : a \in CurrentUsers}

\* The cell a peer has created, and the cells a moderation can name
PeerCellId == 9
ActionCell ==
    SignDelegated(Unsigned("cell", PeerCellId, 1, "0xW1", CellBody("general")),
                  "K2", "0xW1", PeerExpiry)
CellIds == {PeerCellId, 8}

\* What the user asks for
Requests ==
    {[op |-> "createCell", cellId |-> 0], [op |-> "createPost", cellId |-> PeerCellId]}
    \cup {[op |-> o, cellId |-> c] :
             o \in {"moderatePost", "unmoderatePost", "moderateComment", "moderateUser"},
             c \in CellIds}

IsModerationRequest(req) ==
    req.op \in {"moderatePost", "unmoderatePost", "moderateComment", "moderateUser"}

\* useContent.moderate: cellOwner is the author of the named cell, '' if unknown
CellOwner(d, cellId) ==
    IF cellId \in DOMAIN d.cells THEN d.cells[cellId].author ELSE ""

\* A permission check that lets anybody moderate
Permitted_NoOwnerCheck(req, user, d) ==
    \A u \in user : req.op = "createCell" => u.verificationStatus = "ens-verified"

\* A permission check that lets any user create cells
Permitted_NoEnsCheck(req, user, d) ==
    \A u \in user : IsModerationRequest(req) => u.address = CellOwner(d, req.cellId)

\* The permission each action requires of the current user
Permitted(req, user, d) ==
    \A u \in user :
        CASE req.op = "createCell" -> u.verificationStatus = "ens-verified"
          [] req.op = "createPost" -> TRUE
          [] OTHER -> u.address = CellOwner(d, req.cellId)

\* The unsigned message of a request: a fresh id and Date.now()
UnsignedFor(req, address) ==
    CASE req.op = "createCell" ->
            Unsigned("cell", FreshId, now, address, CellBody("mine"))
      [] req.op = "createPost" ->
            Unsigned("post", FreshId, now, address, PostBody(req.cellId, 2, 5))
      [] OTHER ->
            Unsigned("moderate", FreshId, now, address,
                     ModerateBody(IF req.op = "unmoderatePost" THEN "unmoderate" ELSE "moderate",
                                  IF req.op = "moderateComment" THEN "comment"
                                  ELSE IF req.op = "moderateUser" THEN "user" ELSE "post",
                                  1, req.cellId))

\* A step on message m, with what the replica d, the pending ids and the
\* applies in progress showed of m at that step
EventAt(ev, m, d, pend, applying) ==
    [ev |-> ev, key |-> MessageKey(m),
     stored |-> m \in Stored(d),
     seen |-> MessageKey(m) \in d.processed,
     superseded |-> Superseded(d, m),
     pend |-> m.id \in pend,
     inProgress |-> m \in applying]

Event(ev, m) == EventAt(ev, m, db["A"], pending, inflight)

\* Steps 3 to 5 of applyMessage run without yielding: the cache collection,
\* the processed key and lastSync; the IndexedDB write is queued, not awaited
Commit(m) ==
    /\ db' = [db EXCEPT !["A"] = ApplyState(db["A"], m)]
    /\ writes' = IF ApplyResult(db["A"], m) THEN Append(writes, m) ELSE writes
    /\ accepted' = IF ApplyResult(db["A"], m) THEN Append(accepted, m) ELSE accepted

\* The action is called: permission check, unsigned message, signMessage
StartAction(req, user) ==
    /\ job.step = "idle"
    /\ UnusedIds # {}
    /\ IF user = {}
       THEN /\ result' = [op |-> req.op, success |-> FALSE, error |-> "NotAuthenticated"]
            /\ UNCHANGED <<job, events, signedLog>>
       ELSE IF ~Permitted(req, user, db["A"])
       THEN /\ result' = [op |-> req.op, success |-> FALSE, error |-> "PermissionDenied"]
            /\ UNCHANGED <<job, events, signedLog>>
       ELSE LET signed == UNION {SignMessage(UnsignedFor(req, u.address)) : u \in user} IN
            IF signed = {}
            THEN /\ result' = [op |-> req.op, success |-> FALSE, error |-> "DelegationExpired"]
                 /\ UNCHANGED <<job, events, signedLog>>
            ELSE /\ job' = [step |-> "signed", op |-> req.op, msg |-> signed]
                 /\ events' = Append(events, Event("sign", CHOOSE m \in signed : TRUE))
                 /\ signedLog' = signedLog \cup {LogEntry(m) : m \in signed}
                 /\ result' = NoResult
    /\ UNCHANGED <<db, last, probe, now, delegation, out, pending, sent>>
    /\ UNCHANGED local
    /\ UNCHANGED <<inflight, writes, durable, accepted, snapshot, listeners, notices>>

\* LocalDatabase.applyMessage is called and awaits the validation
BeginApply ==
    /\ job.step = "signed"
    /\ inflight' = inflight \cup job.msg
    /\ job' = [job EXCEPT !.step = "applying"]
    /\ UNCHANGED <<db, last, probe, now, delegation, out, signedLog, pending, sent>>
    /\ UNCHANGED local
    /\ UNCHANGED <<result, writes, durable, accepted, snapshot, events, listeners, notices>>

\* ... and completes: duplicate check, cache, processed keys, lastSync
CompleteApply ==
    /\ job.step = "applying"
    /\ \E m \in job.msg :
          /\ Commit(m)
          /\ inflight' = inflight \ {m}
          /\ events' = Append(events,
                 EventAt("apply", m, ApplyState(db["A"], m), pending, inflight \ {m}))
    /\ job' = [job EXCEPT !.step = "applied"]
    /\ UNCHANGED <<last, probe, now, delegation, out, signedLog, pending, sent>>
    /\ UNCHANGED local
    /\ UNCHANGED <<result, durable, snapshot, listeners, notices>>

\* The onPendingChange listeners a caller can register
ListenerIds == {"L1", "L2"}

\* One round of invocations: the listeners invoked and the set they read
Notice(call, id, invoked, saw) ==
    [call |-> call, id |-> id, notified |-> invoked, saw |-> saw]

\* A round of invocations is recorded when the set changed and somebody listens
Notify(call, id, invoked, saw) ==
    notices' = IF saw = pending \/ invoked = {}
               THEN notices
               ELSE Append(notices, Notice(call, id, invoked, saw))

\* A markPending that invokes every listener ever registered
MarkPending_NotifiesUnsubscribed(id) ==
    /\ pending' = pending \cup {id}
    /\ Notify("markPending", id, ListenerIds, pending \cup {id})

\* LocalDatabase.markPending(id): the set, then the listeners
MarkPending(id) ==
    /\ pending' = pending \cup {id}
    /\ Notify("markPending", id, listeners, pending \cup {id})

\* LocalDatabase.clearPending(id): the set, then the listeners
ClearPending(id) ==
    /\ pending' = pending \ {id}
    /\ Notify("clearPending", id, listeners, pending \ {id})

\* LocalDatabase.markPending(id)
MarkPendingStep ==
    /\ job.step = "applied"
    /\ \E m \in job.msg :
          /\ MarkPending(m.id)
          /\ events' = Append(events, EventAt("markPending", m, db["A"], pending \cup {m.id}, inflight))
    /\ job' = [job EXCEPT !.step = "marked"]
    /\ UNCHANGED <<db, last, probe, now, delegation, out, signedLog, sent>>
    /\ UNCHANGED local
    /\ UNCHANGED <<result, inflight, writes, durable, accepted, snapshot, listeners>>

\* An updateCallback invoked while applyMessage is still awaited
UpdateCallback_InsideApply ==
    /\ job.step = "applying"
    /\ \E m \in job.msg : events' = Append(events, Event("callback", m))
    /\ job' = [job EXCEPT !.step = "called"]
    /\ UNCHANGED <<db, last, probe, now, delegation, out, signedLog, pending, sent>>
    /\ UNCHANGED local
    /\ UNCHANGED <<result, inflight, writes, durable, accepted, snapshot, listeners, notices>>

\* updateCallback(): the caller's reflectCache reads the cache
UpdateCallback ==
    /\ job.step = "marked"
    /\ \E m \in job.msg : events' = Append(events, Event("callback", m))
    /\ job' = [job EXCEPT !.step = "called"]
    /\ UNCHANGED <<db, last, probe, now, delegation, out, signedLog, pending, sent>>
    /\ UNCHANGED local
    /\ UNCHANGED <<result, inflight, writes, durable, accepted, snapshot, listeners, notices>>

\* A sendMessage that gives up the pending mark when the transport fails
SendMessage_ForgetsPending(available) ==
    /\ job.step = "called"
    /\ \E m \in job.msg :
          /\ sent' = IF available THEN sent \cup {m} ELSE sent
          /\ pending' = IF available THEN pending ELSE pending \ {m.id}
          /\ events' = Append(events, Event("send", m))
          /\ result' = [op |-> job.op, success |-> available,
                        error |-> IF available THEN "" ELSE "TransportUnavailable"]
    /\ job' = NoJob
    /\ UNCHANGED <<db, last, probe, now, delegation, out, signedLog>>
    /\ UNCHANGED local
    /\ UNCHANGED <<inflight, writes, durable, accepted, snapshot, listeners, notices>>

\* MessageManager.sendMessage(signed): the transport takes it, or is unavailable
SendMessage(available) ==
    /\ job.step = "called"
    /\ \E m \in job.msg :
          IF available
          THEN /\ sent' = sent \cup {m}
               /\ events' = Append(events, Event("send", m))
               /\ result' = [op |-> job.op, success |-> TRUE, error |-> ""]
          ELSE /\ sent' = sent
               /\ events' = Append(Append(events, Event("send", m)), Event("sendFailed", m))
               /\ result' = [op |-> job.op, success |-> FALSE, error |-> "TransportUnavailable"]
    /\ job' = NoJob
    /\ UNCHANGED <<db, last, probe, now, delegation, out, signedLog, pending>>
    /\ UNCHANGED local
    /\ UNCHANGED <<inflight, writes, durable, accepted, snapshot, listeners, notices>>

\* The transport reports delivery of a sent message: clearPending(id)
Acknowledge(m) ==
    /\ m \in sent
    /\ m.id \in pending
    /\ ClearPending(m.id)
    /\ UNCHANGED <<db, last, probe, now, delegation, out, signedLog, sent>>
    /\ UNCHANGED local
    /\ UNCHANGED <<result, inflight, writes, durable, accepted, snapshot, job, events, listeners>>

\* The messages peers publish while the user acts
InboundPool == {ActionCell}

\* MessageService.onMessageReceived: applyMessage(m) is called ...
BeginReceive(m) ==
    /\ m \notin inflight
    /\ inflight' = inflight \cup {m}
    /\ UNCHANGED <<db, last, probe, now, delegation, out, signedLog, pending, sent>>
    /\ UNCHANGED local
    /\ UNCHANGED <<result, writes, durable, accepted, snapshot, job, events, listeners, notices>>

\* ... and returns; if (wasNew) updateUI()
CompleteReceive(m) ==
    /\ m \in inflight \ job.msg
    /\ Commit(m)
    /\ inflight' = inflight \ {m}
    /\ events' =
          LET applied == EventAt("apply", m, ApplyState(db["A"], m), pending, inflight \ {m}) IN
          IF ApplyResult(db["A"], m)
          THEN events \o <<applied, [applied EXCEPT !.ev = "callback"]>>
          ELSE events
    /\ UNCHANGED <<last, probe, now, delegation, out, signedLog, pending, sent>>
    /\ UNCHANGED local
    /\ UNCHANGED <<result, durable, snapshot, job, listeners, notices>>

NextAction ==
    \/ \E a \in ClientWallets : Delegate(a, "7days", "K1")
    \/ DelegateAnonymous("7days", "K1", "uuid4-a")
    \/ \E m \in InboundPool : BeginReceive(m)
    \/ \E m \in InboundPool : CompleteReceive(m)
    \/ \E req \in Requests, user \in SessionUsers : StartAction(req, user)
    \/ BeginApply
    \/ CompleteApply
    \/ MarkPendingStep
    \/ UpdateCallback
    \/ \E available \in BOOLEAN : SendMessage(available)
    \/ \E m \in sent : Acknowledge(m)

SpecAction == Init /\ [][NextAction]_vars

\* An anonymous user posts while a peer's votes on post 1 arrive, the later
\* vote possibly first
NotifyPool == {PoolVote(2, MaxTs), PoolVote(1, 1)}

NextNotify ==
    \/ DelegateAnonymous("7days", "K1", "uuid4-a")
    \/ \E m \in NotifyPool : BeginReceive(m)
    \/ \E m \in NotifyPool : CompleteReceive(m)
    \/ \E user \in SessionUsers : StartAction([op |-> "createPost", cellId |-> PeerCellId], user)
    \/ BeginApply
    \/ CompleteApply
    \/ MarkPendingStep
    \/ UpdateCallback
    \/ \E available \in BOOLEAN : SendMessage(available)
    \/ \E m \in sent : Acknowledge(m)

SpecNotify == Init /\ [][NextNotify]_vars

-----------------------------------------------------------------------------
(* Permissions of the forum actions *)

ModerationOps == {"moderatePost", "unmoderatePost", "moderateComment", "moderateUser"}

CreateCellNeedsEns ==
    /\ [](job.op = "createCell" =>
             \A m \in job.msg : m.type = "cell" /\ m.author \in Wallets)
    /\ [][\A req \in Requests, user \in SessionUsers :
             (/\ StartAction(req, user)
              /\ req.op = "createCell"
              /\ \A u \in user : u.verificationStatus # "ens-verified")
             => /\ result'.success = FALSE
                /\ UNCHANGED <<db, pending, sent, signedLog, events, job, inflight>>]_vars

\* A createCell was denied to a user who could have signed it
CreateCellDenied ==
    /\ result.op = "createCell"
    /\ result.error = "PermissionDenied"
    /\ delegation # {}
    /\ \A d \in delegation : IsDelegationValid(d)

-----------------------------------------------------------------------------
(* Order of the steps of an action, listeners, pending ids *)

\* The messages the local client has built
LocalMessages == {e.msg : e \in signedLog}

\* Event i of the log is preceded by an event ev of the same message
Preceded(i, ev) ==
    \E j \in 1..(i - 1) : events[j].ev = ev /\ events[j].key = events[i].key

\* What a reader of replica d sees of message m is whole: the processed key
\* together with the index entry (or a later entry in its place), or neither
Whole(d, m) ==
    \/ MessageKey(m) \in d.processed /\ (m \in Stored(d) \/ Superseded(d, m))
    \/ MessageKey(m) \notin d.processed /\ m \notin Stored(d)

ActionStepsInClaimedOrder ==
    \A i \in DOMAIN events :
        /\ events[i].ev = "apply" /\ events[i].key[1] \in {"cell", "post", "moderate"}
              => Preceded(i, "sign")
        /\ events[i].ev = "markPending" => Preceded(i, "apply")
        /\ events[i].ev = "send" =>
              Preceded(i, "markPending") /\ events[i].stored /\ events[i].pend
        /\ events[i].ev = "callback" /\ events[i].key[1] \in {"cell", "post", "moderate"}
              => Preceded(i, "send")

\* C17: an id marked pending stays pending until the transport reports the
\* delivery of its message, and is then cleared; when the send fails or no
\* acknowledgement arrives the id stays pending and the message stays in the
\* replica; no message is handed to the transport twice.
PendingUntilDelivered ==
    /\ [](\A i \in DOMAIN events :
             events[i].ev = "send" => ~Preceded(i, "send") /\ events[i].pend)
    /\ [](\A m \in LocalMessages :
             (m.id \in pending /\ m \notin sent /\ job.msg # {m}) =>
                 \E i \in DOMAIN events :
                     events[i].ev = "sendFailed" /\ events[i].key = MessageKey(m))
    /\ [][/\ \A id \in pending \ pending' :
                \E m \in sent : m.id = id /\ Acknowledge(m)
          /\ \A m \in sent : Acknowledge(m) => m.id \notin pending'
          /\ SendMessage(FALSE) =>
                /\ \A m \in job.msg : m.id \in pending'
                /\ db' = db /\ sent' = sent
                /\ result'.error = "TransportUnavailable"
          /\ \A m \in LocalMessages :
                m \in Stored(db["A"]) => m \in Stored(db'["A"])]_vars

\* A send has failed: the post is in the replica, still pending, not sent,
\* and the action is over
FailedSendStaysPending ==
    /\ job = NoJob
    /\ result.error = "TransportUnavailable"
    /\ \E m \in LocalMessages :
          /\ m \in Stored(db["A"])
          /\ m.id \in pending
          /\ m \notin sent


-----------------------------------------------------------------------------
(* The pending set and its listeners *)

MaxNotices == 2
PendingIds == {1, 2}

\* const off = client.database.onPendingChange(listener)
OnPendingChange(l) ==
    /\ l \notin listeners
    /\ listeners' = listeners \cup {l}
    /\ UNCHANGED <<db, last, probe, now, delegation, out, signedLog, pending, sent>>
    /\ UNCHANGED local
    /\ UNCHANGED <<result, inflight, writes, durable, accepted, snapshot, job, events, notices>>

\* off()
Off(l) ==
    /\ l \in listeners
    /\ listeners' = listeners \ {l}
    /\ UNCHANGED <<db, last, probe, now, delegation, out, signedLog, pending, sent>>
    /\ UNCHANGED local
    /\ UNCHANGED <<result, inflight, writes, durable, accepted, snapshot, job, events, notices>>

CallMarkPending(id) ==
    /\ Len(notices) < MaxNotices
    /\ MarkPending(id)
    /\ UNCHANGED <<db, last, probe, now, delegation, out, signedLog, sent>>
    /\ UNCHANGED local
    /\ UNCHANGED <<result, inflight, writes, durable, accepted, snapshot, job, events, listeners>>

CallClearPending(id) ==
    /\ Len(notices) < MaxNotices
    /\ ClearPending(id)
    /\ UNCHANGED <<db, last, probe, now, delegation, out, signedLog, sent>>
    /\ UNCHANGED local
    /\ UNCHANGED <<result, inflight, writes, durable, accepted, snapshot, job, events, listeners>>

NextPending ==
    \/ \E l \in ListenerIds : OnPendingChange(l)
    \/ \E l \in ListenerIds : Off(l)
    \/ \E id \in PendingIds : CallMarkPending(id)
    \/ \E id \in PendingIds : CallClearPending(id)

SpecPending == Init /\ [][NextPending]_vars

\* C18: every markPending or clearPending call that changes the pending set
\* invokes every registered onPendingChange listener after the set has been
\* updated, and invokes no listener whose unsubscribe handle has been called.
PendingChangeNotifiesListeners ==
    [][\A id \in PendingIds :
          ((CallMarkPending(id) \/ CallClearPending(id)) /\ pending' # pending)
          => IF listeners = {}
             THEN notices' = notices
             ELSE /\ Len(notices') = Len(notices) + 1
                  /\ notices'[Len(notices')].notified = listeners
                  /\ notices'[Len(notices')].saw = pending'
                  /\ notices'[Len(notices')].id = id]_vars

\* L1 was invoked by one change, unsubscribed, and a later change invoked L2
\* without it
UnsubscribedNotInvoked ==
    /\ "L1" \notin listeners
    /\ \E i, j \in DOMAIN notices :
          /\ i < j
          /\ "L1" \in notices[i].notified
          /\ notices[j].notified = {"L2"}
          /\ notices[j].call = "clearPending"


-----------------------------------------------------------------------------
(* The IndexedDB stores behind the cache *)

\* A second post of the same author
LaterPost == SignAnonymous(Unsigned("post", 2, MaxTs, "uuid4-a", PostBody(1, 2, 5)), "K1")

\* Two posts, and two votes of one slot
StorePool == {PoolPost, LaterPost, PoolVote(2, MaxTs), PoolVote(1, 1)}

\* The messages whose IndexedDB write has been issued and has not settled
Outstanding == {writes[i] : i \in DOMAIN writes}

\* The oldest outstanding write completes
WriteDone ==
    /\ writes # <<>>
    /\ durable' = StoreMessage(durable, Head(writes))
    /\ writes' = Tail(writes)
    /\ UNCHANGED <<db, last, probe, now, delegation, out, signedLog, pending, sent>>
    /\ UNCHANGED local
    /\ UNCHANGED <<result, inflight, accepted, snapshot, job, events, listeners, notices>>

\* The oldest outstanding write fails; nobody awaits it
WriteFail ==
    /\ writes # <<>>
    /\ writes' = Tail(writes)
    /\ UNCHANGED <<db, last, probe, now, delegation, out, signedLog, pending, sent>>
    /\ UNCHANGED local
    /\ UNCHANGED <<result, inflight, durable, accepted, snapshot, job, events, listeners, notices>>

NextStore ==
    \/ \E m \in StorePool : BeginReceive(m)
    \/ \E m \in StorePool : CompleteReceive(m)
    \/ WriteDone
    \/ WriteFail

SpecStore == Init /\ [][NextStore]_vars

\* The process stops and starts again: open() loads the stores into the cache.
\* The documents do not say whether the processed keys of the loaded messages
\* are rebuilt: either. One restart is followed.
Restart ==
    /\ snapshot = {}
    /\ snapshot' = {Indexes(db["A"])}
    /\ \E keys \in {{}, {MessageKey(m) : m \in Stored(durable)}} :
          db' = [db EXCEPT !["A"] = [durable EXCEPT !.processed = keys]]
    /\ inflight' = {}
    /\ writes' = <<>>
    /\ events' = <<>>
    /\ UNCHANGED <<last, probe, now, delegation, out, signedLog, pending, sent>>
    /\ UNCHANGED local
    /\ UNCHANGED <<result, durable, accepted, job, listeners, notices>>

\* A post and a vote on it
RestartPool == {PoolPost, PoolVote(1, 1)}

NextRestart ==
    \/ \E m \in RestartPool : BeginReceive(m)
    \/ \E m \in RestartPool : CompleteReceive(m)
    \/ WriteDone
    \/ WriteFail
    \/ Restart

SpecRestart == Init /\ [][NextRestart]_vars

DurableIsPrefixOfAccepted ==
    \A i, j \in DOMAIN accepted :
        (i < j /\ accepted[i].type = accepted[j].type /\ accepted[j] \in Stored(durable))
        => (accepted[i] \in Stored(durable) \/ Superseded(durable, accepted[i]))

\* C20, as claimed: after a restart open() hydrates cells, posts, comments,
\* votes and moderations equal to those held before the restart.
HydrationRestoresIndexes ==
    [][Restart => Indexes(db'["A"]) = Indexes(db["A"])]_vars


-----------------------------------------------------------------------------
(* Accepted messages are kept *)

\* A peer publishes post 1 again, later and with another content
RepublishedPost ==
    SignAnonymous(Unsigned("post", 1, MaxTs, "uuid4-a", PostBody(1, 1, 1)), "K1")

\* A cell, a post in two versions, and the owner moderating it and taking
\* the moderation back
KeepPool ==
    {ActionCell, PoolPost, RepublishedPost, PoolModeration(1, 1), PoolModeration(2, MaxTs)}

\* Peers' messages arrive while the user creates and moderates; one action
\* of the user is followed
NextKeep ==
    \/ \E a \in ClientWallets : Delegate(a, "7days", "K1")
    \/ DelegateAnonymous("7days", "K1", "uuid4-a")
    \/ \E m \in KeepPool : Deliver("A", m)
    \/ \E req \in Requests, user \in SessionUsers :
          signedLog = {} /\ StartAction(req, user)
    \/ BeginApply
    \/ CompleteApply
    \/ MarkPendingStep
    \/ UpdateCallback
    \/ \E available \in BOOLEAN : SendMessage(available)
    \/ \E m \in sent : Acknowledge(m)

SpecKeep == Init /\ [][NextKeep]_vars

\* Every entry of map before is an entry of map after, unchanged
Kept(before, after) ==
    \A k \in DOMAIN before : k \in DOMAIN after /\ after[k] = before[k]

-----------------------------------------------------------------------------
(* lastSync *)

\* C22: lastSync never decreases; it is null while no message has been
\* accepted and otherwise the greatest timestamp among the accepted messages;
\* a rejected or duplicate message does not change it.
LastSyncIsMaxAccepted ==
    /\ [](LET acc == Accepted("A", Pool) IN
          IF acc = {}
          THEN db["A"].lastSync = {}
          ELSE \E m \in acc :
                  /\ db["A"].lastSync = {m.timestamp}
                  /\ \A o \in acc : o.timestamp <= m.timestamp)
    /\ [][/\ \A t \in db["A"].lastSync :
                \E u \in db'["A"].lastSync : u >= t
          /\ \A m \in Pool :
                (Receive(m) /\ ~ApplyResult(db["A"], m)) =>
                    db'["A"].lastSync = db["A"].lastSync]_vars

\* An older message has just been accepted and lastSync stayed at the
\* greatest timestamp
OlderAcceptedAfterLatest ==
    /\ last.ret
    /\ \A m \in last.msg : m.timestamp < MaxTs
    /\ db["A"].lastSync = {MaxTs}


-----------------------------------------------------------------------------
(* Structural validation at its edges *)

\* Timestamps, lengths and vote values on both sides of every limit
EdgeTimestamps == {-1, 0, 1, MaxTimestamp, MaxTimestamp + 1}
EdgeTitles == {0, 1, MaxTitleLength, MaxTitleLength + 1}
EdgeContents == {0, 1, MaxContentLength, MaxContentLength + 1}
EdgeValues == {-1, 0, 1, 2}

\* Correctly signed posts, comments and votes of an anonymous session
EdgeMessages ==
    {SignAnonymous(Unsigned("post", 1, ts, "uuid4-a", PostBody(1, t, c)), "K1") :
        ts \in EdgeTimestamps, t \in EdgeTitles, c \in EdgeContents}
    \cup {SignAnonymous(Unsigned("comment", 1, ts, "uuid4-a", CommentBody(1, c)), "K1") :
             ts \in EdgeTimestamps, c \in EdgeContents}
    \cup {SignAnonymous(Unsigned("vote", 1, ts, "uuid4-a", VoteBody(1, v)), "K1") :
             ts \in EdgeTimestamps, v \in EdgeValues}

InitValidate ==
    /\ db = [r \in Replicas |-> EmptyDatabase]
    /\ last = NoCall
    /\ probe \in {{m} : m \in EdgeMessages}
    /\ Quiet
    /\ Idle

SpecValidate == InitValidate /\ [][NextVerify]_vars

\* The text of m is within its limits: not empty, not longer than the limit
TextWithinLimits(m) ==
    CASE m.type = "post" -> /\ m.body.title \in 1..MaxTitleLength
                            /\ m.body.content \in 1..MaxContentLength
      [] m.type = "comment" -> m.body.content \in 1..MaxContentLength
      [] OTHER -> TRUE

\* C23: applyMessage rejects, and stores nothing for, a message whose
\* timestamp is zero, negative or far in the future, whose title or body is
\* empty or longer than its limit, or whose vote value is not +1 or -1; a
\* title or body of exactly the limit is accepted.
StructurallyInvalidRejected ==
    \A m \in last.msg :
        /\ (\/ m.timestamp <= 0
            \/ m.timestamp > MaxTimestamp
            \/ ~TextWithinLimits(m)
            \/ m.type = "vote" /\ m.body.value \notin {1, -1})
           => (~last.ret /\ db["A"] = EmptyDatabase)
        /\ (/\ m.timestamp \in 1..MaxTimestamp
            /\ TextWithinLimits(m)
            /\ m.type = "vote" => m.body.value \in {1, -1})
           => m \in Stored(db["A"])

\* A post whose title and content are exactly at their limits has been
\* accepted
AtLimitAccepted ==
    /\ last.ret
    /\ \E m \in last.msg :
          /\ m.type = "post"
          /\ m.body.title = MaxTitleLength
          /\ m.body.content = MaxContentLength
          /\ m.timestamp = MaxTimestamp
          /\ m \in Stored(db["A"])


-----------------------------------------------------------------------------
(* UserIdentityService.getIdentity *)

\* The address whose identity is asked for, and the calls made for it
IdentityAddress == "0xW1"
CallIds == {1, 2, 3}

\* "fresh (< 5 min)", in clock ticks
FreshnessWindow == 2

\* The calls already made
CallsMade ==
    {w.call : w \in identity.waiting}
    \cup UNION {{w.call : w \in l.callers} : l \in identity.lookups}
    \cup {r.call : r \in identity.returned}

\* The age of the cached entry, {} when there is none
CacheAge == {now - e.lastUpdated : e \in identity.cache}

\* getIdentity(address, {fresh}): a cached entry younger than five minutes is
\* returned; otherwise the call starts, or resets, the debounce timer
GetIdentity(c, fresh) ==
    /\ c \notin CallsMade
    /\ IF ~fresh /\ CacheAge # {} /\ \A a \in CacheAge : a < FreshnessWindow
       THEN identity' = [identity EXCEPT !.returned =
                @ \cup {[call |-> c, fresh |-> fresh, age |-> CacheAge,
                         value |-> identity.cache, lookup |-> 0]}]
       ELSE identity' = [identity EXCEPT !.waiting =
                @ \cup {[call |-> c, fresh |-> fresh, age |-> CacheAge]}]
    /\ UNCHANGED <<db, last, probe, now, delegation, out, signedLog, pending, sent>>
    /\ UNCHANGED <<result, inflight, writes, durable, accepted, snapshot, job, events>>
    /\ UNCHANGED <<listeners, notices, following, bookmarks, scoring>>

\* 100 ms have passed without a call: the lookup executes once for the calls
\* that waited
TimerFires ==
    /\ identity.waiting # {}
    /\ identity' = [identity EXCEPT
          !.waiting = {},
          !.started = @ + 1,
          !.lookups = @ \cup {[id |-> identity.started + 1, callers |-> identity.waiting]}]
    /\ UNCHANGED <<db, last, probe, now, delegation, out, signedLog, pending, sent>>
    /\ UNCHANGED <<result, inflight, writes, durable, accepted, snapshot, job, events>>
    /\ UNCHANGED <<listeners, notices, following, bookmarks, scoring>>

\* The ENS lookup l answers: the result is cached and returned to its callers
LookupResolves(l) ==
    LET entry == {[lastUpdated |-> now, by |-> l.id]} IN
    /\ l \in identity.lookups
    /\ identity' = [identity EXCEPT
          !.cache = entry,
          !.lookups = @ \ {l},
          !.returned = @ \cup {[call |-> w.call, fresh |-> w.fresh, age |-> w.age,
                                value |-> entry, lookup |-> l.id] : w \in l.callers}]
    /\ UNCHANGED <<db, last, probe, now, delegation, out, signedLog, pending, sent>>
    /\ UNCHANGED <<result, inflight, writes, durable, accepted, snapshot, job, events>>
    /\ UNCHANGED <<listeners, notices, following, bookmarks, scoring>>

NextIdentity ==
    \/ \E c \in CallIds, fresh \in BOOLEAN : GetIdentity(c, fresh)
    \/ TimerFires
    \/ \E l \in identity.lookups : LookupResolves(l)
    \/ Tick

SpecIdentity == Init /\ [][NextIdentity]_vars

\* The calls that wait for a lookup or have been answered by one
Refreshing ==
    identity.waiting
    \cup UNION {l.callers : l \in identity.lookups}
    \cup {[call |-> r.call, fresh |-> r.fresh, age |-> r.age] :
             r \in {x \in identity.returned : x.lookup # 0}}

\* C24, as claimed: at most one name lookup for the address is outstanding at
\* any time, every call that needed a refresh returns the identity its lookup
\* produced, and a call that finds a cache entry not older than five minutes
\* starts no lookup.
IdentityRefreshesCoalesce ==
    /\ Cardinality(identity.lookups) <= 1
    /\ \A r \in identity.returned :
          r.lookup # 0 => \A e \in r.value : e.by = r.lookup
    /\ \A w \in Refreshing :
          ~(~w.fresh /\ w.age # {} /\ \A a \in w.age : a <= FreshnessWindow)

-----------------------------------------------------------------------------
\* RelevanceCalculator.calculatePostScore
\*
\* JavaScript numbers are kept in fixed point: one unit is 1/Scale.

Scale == 10000
ExpTerms == 12    \* terms of the exponential series that are summed
MaxDays == 8      \* posts are scored up to MaxDays whole days after posting

MsPerDay == 1000 * 60 * 60 * 24

RECURSIVE ExpSeries(_, _, _)
ExpSeries(x, term, n) ==
    IF n > ExpTerms \/ term = 0 THEN 0
    ELSE term + ExpSeries(x, (term * x) \div (n * Scale), n + 1)

\* Math.exp
Exp(a) ==
    IF a >= 0 THEN ExpSeries(a, Scale, 1)
    ELSE (Scale * Scale) \div ExpSeries(-a, Scale, 1)

\* (Date.now() - post.timestamp) / (1000 * 60 * 60 * 24)
DaysOld(post, clock) == (clock - post.timestamp) \div (MsPerDay \div Scale)

\* A score that does not age
TimeDecay_None(daysOld) == Scale

\* Math.exp(-0.693 * daysOld / 7)
TimeDecay(daysOld) ==
    IF daysOld >= 0 THEN Exp(-((693 * daysOld) \div (1000 * 7)))
    ELSE Exp((693 * (-daysOld)) \div (1000 * 7))

Upvotes(votes) == {v \in votes : v.value = 1}
Downvotes(votes) == {v \in votes : v.value = -1}

\* An engagement score that takes downvotes for engagement too
EngagementScore_CountsDownvotes(votes, comments) ==
    (Cardinality(votes) * 10) + (Cardinality(comments) * 3)

EngagementScore(votes, comments) ==
    (Cardinality(Upvotes(votes)) * 10) + (Cardinality(comments) * 3)

VerifiedUpvoters(votes, verifications) ==
    {v \in Upvotes(votes) : v.author \in verifications}

VerifiedCommenters(comments, verifications) ==
    {c.author : c \in comments} \cap verifications

\* if (moderations.has(post.id)) score *= 0.5
ModerationPenalty(post, moderations) ==
    IF post.id \in DOMAIN moderations THEN Scale \div 2 ELSE Scale

Max(a, b) == IF a >= b THEN a ELSE b

\* score *= factor, without leaving the 32-bit integers
Times(score, factor) ==
    (score \div Scale) * factor + ((score % Scale) * factor) \div Scale

CalculatePostScore(post, votes, comments, verifications, moderations, clock) ==
    LET engagement == EngagementScore(votes, comments)
        authorBonus == IF post.author \in verifications THEN 20 ELSE 0
        upvoteBonus == Cardinality(VerifiedUpvoters(votes, verifications)) * 5
        commenterBonus == Cardinality(VerifiedCommenters(comments, verifications)) * 10
        daysOld == DaysOld(post, clock)
        decay == TimeDecay(daysOld)
        penalty == ModerationPenalty(post, moderations)
        decayed == (100 + engagement + authorBonus + upvoteBonus + commenterBonus) * decay
    IN  [baseScore |-> 100,
         engagementScore |-> engagement,
         authorVerificationBonus |-> authorBonus,
         verifiedUpvoteBonus |-> upvoteBonus,
         verifiedCommenterBonus |-> commenterBonus,
         timeDecayMultiplier |-> decay,
         moderationPenalty |-> penalty,
         finalScore |-> Max(0, Times(decayed, penalty)),
         daysOld |-> daysOld,
         isModerated |-> penalty # Scale]

\* The posts that are scored
PostedAt == 1000
Upvoters == <<"0xW1", "0xW2", "0xW3", "0xW4", "0xW5",
              "0xW6", "0xW7", "0xW8", "0xW9", "0xW10">>
Downvoters == <<"0xD1", "0xD2">>

ScoredPosts == {[id |-> 1, author |-> a, timestamp |-> PostedAt] : a \in {"0xA", "0xW1"}}

VotesOf(up, down) ==
    {[targetId |-> 1, author |-> Upvoters[i], value |-> 1] : i \in 1..up}
    \cup {[targetId |-> 1, author |-> Downvoters[i], value |-> -1] : i \in 1..down}

VoteLists == {VotesOf(0, 0), VotesOf(1, 0), VotesOf(2, 1), VotesOf(0, 2), VotesOf(10, 0)}

CommentLists ==
    {{},
     {[id |-> 1, postId |-> 1, author |-> "0xW1"], [id |-> 2, postId |-> 1, author |-> "0xW1"]},
     {[id |-> 1, postId |-> 1, author |-> "0xW1"], [id |-> 2, postId |-> 1, author |-> "0xW2"]}}

\* The addresses whose identity is ENS-verified
VerificationLists == {{}, {"0xA"}, {"0xA", "0xW1"}, {"0xW1", "0xW2", "0xD1"}}

\* The latest moderation record of the post, by post id
ModerationLists ==
    {EmptyMap, Put(EmptyMap, 1, PoolModeration(1, 1)), Put(EmptyMap, 1, PoolModeration(2, MaxTs))}

ScoreInputs ==
    [post : ScoredPosts, votes : VoteLists, comments : CommentLists,
     verifications : VerificationLists, moderations : ModerationLists]

Clocks == {PostedAt + d * MsPerDay : d \in 0..MaxDays}

InitScore ==
    /\ db = [r \in Replicas |-> EmptyDatabase]
    /\ last = NoCall
    /\ probe = {}
    /\ Quiet
    /\ result = NoResult
    /\ inflight = {}
    /\ writes = <<>>
    /\ durable = EmptyDatabase
    /\ accepted = <<>>
    /\ snapshot = {}
    /\ job = NoJob
    /\ events = <<>>
    /\ listeners = {}
    /\ notices = <<>>
    /\ identity = NoIdentity
    /\ following = EmptyMap
    /\ bookmarks = EmptyMap
    /\ scoring \in {[input |-> {i}, previous |-> {}, latest |-> {}] : i \in ScoreInputs}

\* client.relevance.calculatePostScore(post, votes, comments, ..., moderations)
Score(clock) ==
    /\ \E i \in scoring.input :
          scoring' = [scoring EXCEPT
              !.previous = scoring.latest,
              !.latest = {[clock |-> clock,
                           details |-> CalculatePostScore(i.post, i.votes, i.comments,
                                                          i.verifications, i.moderations,
                                                          clock)]}]
    /\ UNCHANGED <<db, last, probe, now, delegation, out, signedLog, pending, sent>>
    /\ UNCHANGED <<result, inflight, writes, durable, accepted, snapshot, job, events>>
    /\ UNCHANGED <<listeners, notices, identity, following, bookmarks>>

NextScore == \E clock \in Clocks : Score(clock)

SpecScore == InitScore /\ [][NextScore]_vars

\* The moderation record the scored post has, if any
EffectiveModeration == UNION {{i.moderations[k] : k \in DOMAIN i.moderations} : i \in scoring.input}

\* C25, as claimed: the moderation factor of a score is one half exactly when
\* the latest moderation record of the post is Moderate, and one when the post
\* has no record or its latest record is Unmoderate.
HalvedExactlyWhenModerated ==
    \A e \in scoring.latest :
        /\ (e.details.moderationPenalty = Scale \div 2)
              <=> (\E m \in EffectiveModeration : m.body.action = "moderate")
        /\ (e.details.moderationPenalty = Scale)
              <=> (\A m \in EffectiveModeration : m.body.action = "unmoderate")


\* base + engagement + verification bonuses, counted from the inputs
Points(i) ==
    100
    + 10 * Cardinality({v \in i.votes : v.value = 1})
    + 3 * Cardinality(i.comments)
    + (IF i.post.author \in i.verifications THEN 20 ELSE 0)
    + 5 * Cardinality({v \in i.votes : v.value = 1 /\ v.author \in i.verifications})
    + 10 * Cardinality({a \in i.verifications : \E c \in i.comments : c.author = a})

\* Ten upvotes, no comment, an ENS-verified author, no verified upvoter, no
\* moderation record
IsExample(i) ==
    /\ i.votes = VotesOf(10, 0)
    /\ i.comments = {}
    /\ i.verifications = {i.post.author}
    /\ i.post.author = "0xA"
    /\ i.moderations = EmptyMap

\* The score is the points times the decay times the moderation penalty, the
\* decay being 1 at the post's timestamp and one half, to the last digit kept,
\* seven days later
ScoreIsPointsTimesDecay ==
    \A i \in scoring.input : \A e \in scoring.latest :
        /\ e.details.finalScore
              = Times(Points(i) * e.details.timeDecayMultiplier, e.details.moderationPenalty)
        /\ e.clock = i.post.timestamp => e.details.timeDecayMultiplier = Scale
        /\ e.clock = i.post.timestamp + 7 * MsPerDay
              => e.details.timeDecayMultiplier \in {Scale \div 2, Scale \div 2 + 1}
        /\ (e.clock = i.post.timestamp /\ IsExample(i))
              => e.details.finalScore = 220 * Scale

\* C26, as claimed: the score is (100 + 10 x upvotes + 3 x comments + 20 for
\* an ENS-verified author + 5 x verified upvoters + 10 x distinct verified
\* commenters) x decay x moderation factor, downvotes counting for nothing;
\* the example post scores 220 at its timestamp and 60 seven days later.
ExampleScores220Then60 ==
    /\ ScoreIsPointsTimesDecay
    /\ \A i \in scoring.input : \A e \in scoring.latest :
          (e.clock = i.post.timestamp + 7 * MsPerDay /\ IsExample(i))
              => e.details.finalScore \div Scale = 60

\* C26, amended: the same formula; the example post scores 220 at its
\* timestamp and 110 (220 x 1/2) seven days later.
ExampleScores220Then110 ==
    /\ ScoreIsPointsTimesDecay
    /\ \A i \in scoring.input : \A e \in scoring.latest :
          (e.clock = i.post.timestamp + 7 * MsPerDay /\ IsExample(i))
              => e.details.finalScore \div Scale = 110

\* The example post has been scored at its timestamp and then a week later
ExampleScoredAfterAWeek ==
    \E i \in scoring.input : \E e \in scoring.latest : \E b \in scoring.previous :
        /\ IsExample(i)
        /\ b.clock = i.post.timestamp
        /\ e.clock = i.post.timestamp + 7 * MsPerDay
        /\ b.details.finalScore > e.details.finalScore

-----------------------------------------------------------------------------
\* FollowingService and the bookmarks: collections kept on the device

FollowedAddresses == {"0xW1", "0xW2"}
BookmarkedPosts == {1}

\* LocalDatabase.addFollowing / removeFollowing / isFollowing / getUserFollowing
AddFollowing(map, f) == Put(map, f.id, f)
RemoveFollowing(map, id) == [k \in DOMAIN map \ {id} |-> map[k]]
IsFollowing(map, userId, followedAddress) == <<userId, followedAddress>> \in DOMAIN map
GetUserFollowing(map, userId) == {map[k] : k \in {x \in DOMAIN map : map[x].userId = userId}}

\* LocalDatabase.addBookmark / removeBookmark
AddBookmark(map, b) == Put(map, b.id, b)
RemoveBookmark(map, id) == [k \in DOMAIN map \ {id} |-> map[k]]

\* A follow that numbers its records
FollowUserService_NumbersRecords(map, userId, followedAddress, clock) ==
    AddFollowing(map, [id |-> <<userId, followedAddress, Cardinality(DOMAIN map)>>,
                       userId |-> userId,
                       followedAddress |-> followedAddress, followedAt |-> clock])

\* FollowingService.followUser
FollowUserService(map, userId, followedAddress, clock) ==
    AddFollowing(map, [id |-> <<userId, followedAddress>>, userId |-> userId,
                       followedAddress |-> followedAddress, followedAt |-> clock])

\* FollowingService.unfollowUser
UnfollowUserService(map, userId, followedAddress) ==
    RemoveFollowing(map, <<userId, followedAddress>>)

\* A toggle that answers with the state it found
ToggleFollowService_ReturnsWasFollowing(map, userId, followedAddress, clock) ==
    IF IsFollowing(map, userId, followedAddress)
    THEN [following |-> UnfollowUserService(map, userId, followedAddress), ret |-> TRUE]
    ELSE [following |-> FollowUserService(map, userId, followedAddress, clock), ret |-> FALSE]

\* FollowingService.toggleFollow
ToggleFollowService(map, userId, followedAddress, clock) ==
    IF IsFollowing(map, userId, followedAddress)
    THEN [following |-> UnfollowUserService(map, userId, followedAddress), ret |-> FALSE]
    ELSE [following |-> FollowUserService(map, userId, followedAddress, clock), ret |-> TRUE]

\* FollowingService.clearUserFollowing
ClearUserFollowingService(map, userId) ==
    [k \in {x \in DOMAIN map : map[x].userId # userId} |-> map[k]]

\* What a call of the content hook returned, and for whom
FollowReturn(op, user, target, value) ==
    [op |-> op, success |-> value, error |-> "",
     userId |-> {u.address : u \in user}, target |-> target]

\* A follow that also tells the network
LocalOnly_Announces(op, user, target) ==
    /\ sent' = sent \cup {[op |-> op, userId |-> {u.address : u \in user}, target |-> target]}
    /\ UNCHANGED <<db, last, probe, now, delegation, out, signedLog, pending>>
    /\ UNCHANGED <<inflight, writes, durable, accepted, snapshot, job, events>>
    /\ UNCHANGED <<listeners, notices, identity, scoring>>

\* What a call on the device-local collections leaves alone
LocalOnly(op, user, target) ==
    /\ UNCHANGED <<db, last, probe, now, delegation, out, signedLog, pending, sent>>
    /\ UNCHANGED <<inflight, writes, durable, accepted, snapshot, job, events>>
    /\ UNCHANGED <<listeners, notices, identity, scoring>>

\* useContent().toggleFollow
ToggleFollow(user, followedAddress) ==
    /\ IF user = {}
       THEN /\ result' = FollowReturn("toggleFollow", user, followedAddress, FALSE)
            /\ UNCHANGED following
       ELSE \E u \in user :
               LET t == ToggleFollowService(following, u.address, followedAddress, now)
               IN  /\ following' = t.following
                   /\ result' = FollowReturn("toggleFollow", user, followedAddress, t.ret)
    /\ UNCHANGED bookmarks
    /\ LocalOnly("toggleFollow", user, followedAddress)

\* useContent().followUser
FollowUser(user, followedAddress) ==
    /\ IF user = {}
       THEN /\ result' = FollowReturn("followUser", user, followedAddress, FALSE)
            /\ UNCHANGED following
       ELSE \E u \in user :
               /\ following' = FollowUserService(following, u.address, followedAddress, now)
               /\ result' = FollowReturn("followUser", user, followedAddress, TRUE)
    /\ UNCHANGED bookmarks
    /\ LocalOnly("followUser", user, followedAddress)

\* useContent().unfollowUser
UnfollowUser(user, followedAddress) ==
    /\ IF user = {}
       THEN /\ result' = FollowReturn("unfollowUser", user, followedAddress, FALSE)
            /\ UNCHANGED following
       ELSE \E u \in user :
               /\ following' = UnfollowUserService(following, u.address, followedAddress)
               /\ result' = FollowReturn("unfollowUser", user, followedAddress, TRUE)
    /\ UNCHANGED bookmarks
    /\ LocalOnly("unfollowUser", user, followedAddress)

\* useContent().clearAllFollowing
ClearAllFollowing(user) ==
    /\ IF user = {}
       THEN UNCHANGED following
       ELSE \E u \in user : following' = ClearUserFollowingService(following, u.address)
    /\ result' = FollowReturn("clearAllFollowing", user, "", user # {})
    /\ UNCHANGED bookmarks
    /\ LocalOnly("clearAllFollowing", user, "")

\* BookmarkService.addPostBookmark
AddPostBookmark(user, postId) ==
    /\ user # {}
    /\ \E u \in user :
          bookmarks' = AddBookmark(bookmarks,
                                   [id |-> <<"post", postId>>, type |-> "post",
                                    targetId |-> postId, userId |-> u.address,
                                    createdAt |-> now])
    /\ result' = FollowReturn("addPostBookmark", user, postId, TRUE)
    /\ UNCHANGED following
    /\ LocalOnly("addPostBookmark", user, postId)

\* useContent().removeBookmark
RemoveBookmarkCall(user, postId) ==
    /\ IF user = {}
       THEN UNCHANGED bookmarks
       ELSE bookmarks' = RemoveBookmark(bookmarks, <<"post", postId>>)
    /\ result' = FollowReturn("removeBookmark", user, postId, user # {})
    /\ UNCHANGED following
    /\ LocalOnly("removeBookmark", user, postId)

FollowPool == {PoolPost}

NextFollow ==
    \/ DelegateAnonymous("7days", "K1", "uuid4-a")
    \/ \E m \in FollowPool : Deliver("A", m)
    \/ \E user \in SessionUsers :
          signedLog = {} /\ StartAction([op |-> "createPost", cellId |-> PeerCellId], user)
    \/ BeginApply
    \/ CompleteApply
    \/ MarkPendingStep
    \/ UpdateCallback
    \/ SendMessage(TRUE)
    \/ \E user \in SessionUsers, a \in FollowedAddresses : ToggleFollow(user, a)
    \/ \E user \in SessionUsers, a \in FollowedAddresses : FollowUser(user, a)
    \/ \E user \in SessionUsers, a \in FollowedAddresses : UnfollowUser(user, a)
    \/ \E user \in SessionUsers : ClearAllFollowing(user)
    \/ \E user \in SessionUsers, p \in BookmarkedPosts : AddPostBookmark(user, p)
    \/ \E user \in SessionUsers, p \in BookmarkedPosts : RemoveBookmarkCall(user, p)

SpecFollow == Init /\ [][NextFollow]_vars


\* C28: toggleFollow returns true exactly when the user follows the address
\* once the call is over: it creates the record and returns true when the
\* user was not following, removes it and returns false when the user was, and
\* a second toggle brings the user back to where the first one started.
ToggleReturnsNewState ==
    [][\A user \in SessionUsers, a \in FollowedAddresses :
          ToggleFollow(user, a) =>
              /\ user = {} => (~result'.success /\ following' = following)
              /\ \A u \in user :
                    /\ result'.success <=> IsFollowing(following', u.address, a)
                    /\ IsFollowing(following', u.address, a)
                          <=> ~IsFollowing(following, u.address, a)
                    /\ IsFollowing(following', u.address, a) =>
                          /\ following'[<<u.address, a>>].userId = u.address
                          /\ following'[<<u.address, a>>].followedAddress = a
                    /\ \A k \in (DOMAIN following \cup DOMAIN following') \ {<<u.address, a>>} :
                          /\ k \in DOMAIN following /\ k \in DOMAIN following'
                          /\ following'[k] = following[k]
                    /\ IsFollowing(ToggleFollowService(following', u.address, a, now).following,
                                   u.address, a)
                          <=> IsFollowing(following, u.address, a)]_vars

\* A logged-in user who follows one address has just toggled another one off
ToggledOff ==
    /\ result.op = "toggleFollow"
    /\ ~result.success
    /\ \E u \in result.userId :
          /\ ~IsFollowing(following, u, result.target)
          /\ GetUserFollowing(following, u) # {}

\* The calls on the collections kept on the device
LocalCall ==
    \/ \E user \in SessionUsers, a \in FollowedAddresses :
          ToggleFollow(user, a) \/ FollowUser(user, a) \/ UnfollowUser(user, a)
    \/ \E user \in SessionUsers : ClearAllFollowing(user)
    \/ \E user \in SessionUsers, p \in BookmarkedPosts :
          AddPostBookmark(user, p) \/ RemoveBookmarkCall(user, p)

\* C29: following, unfollowing, toggling, unfollowing everyone and the
\* bookmark calls change the following or the bookmark collection only: no
\* message is built, signed or sent, and the cells, posts, comments, votes,
\* moderations, processed ids and pending ids are as before.
LocalCallsStayLocal ==
    [][LocalCall =>
          /\ UNCHANGED <<db, pending, sent, signedLog, out, inflight, accepted, job, events>>
          /\ following' = following \/ bookmarks' = bookmarks]_vars

\* With a post of its own pending and sent and a peer's post in the replica,
\* the user follows an address
FollowedWhilePostPending ==
    /\ result.op \in {"followUser", "toggleFollow"}
    /\ result.success
    /\ following # EmptyMap
    /\ pending # {}
    /\ sent # {}
    /\ PoolPost \in Stored(db["A"])


-----------------------------------------------------------------------------
\* C30, as claimed: every message accepted with a delegation proof names the
\* proof's wallet address as its author; a message signed by a browser key
\* that wallet W authorised and naming another address, or a UUID, as author
\* is rejected by verify and is not stored.
ProvenAuthorIsWallet ==
    /\ \A m \in Stored(db["A"]) : \A p \in m.delegationProof : m.author = p.walletAddress
    /\ \A m \in probe : \A p \in m.delegationProof :
          m.author # p.walletAddress => ~VerifyMessage(m)


-----------------------------------------------------------------------------
\* Moderation messages and the owner of the cell they name

\* A Moderate of post 1 in cell 1 by a wallet that did not create the cell,
\* validly signed by a browser key that wallet authorised
ForeignModeration ==
    SignDelegated(Unsigned("moderate", 3, MaxTs, "0xW2",
                           ModerateBody("moderate", "post", 1, 1)),
                  "K1", "0xW2", PeerExpiry)

OwnerPool ==
    {PoolCell, PoolPost, PoolComment, PoolVote(1, 1),
     PoolModeration(1, 1), PoolModeration(2, 1), ForeignModeration}

NextOwner == \E m \in OwnerPool : Receive(m)

SpecOwner == Init /\ [][NextOwner]_vars

\* The targets a moderation of the pool can name
OwnerKeys == {ModerationKey(m) : m \in {x \in OwnerPool : x.type = "moderate"}}

\* C31, as claimed: the record that decides a target's moderation state was
\* authored by the author of the cell it names, and a validly signed
\* moderation message from the network whose author is not the author of its
\* cell never changes the moderation state a reader of the replica sees.
ModerationByOwnerOnly ==
    /\ [](\A k \in DOMAIN db["A"].moderations :
              k[1] \in DOMAIN db["A"].cells
                  => db["A"].moderations[k].author = CellOwner(db["A"], k[1]))
    /\ [][\A m \in OwnerPool :
              (/\ Receive(m)
               /\ m.type = "moderate"
               /\ m.body.cellId \in DOMAIN db["A"].cells
               /\ m.author # CellOwner(db["A"], m.body.cellId))
              => \A k \in OwnerKeys : IsModerated(db'["A"], k) <=> IsModerated(db["A"], k)]_vars

-----------------------------------------------------------------------------
\* Overlapping applyMessage calls: each call awaits the validation of its
\* message and then checks for a duplicate and stores in one step

ApplyCalls == {1, 2, 3}
OverlapPool == {PoolPost, PoolVote(1, 1), PoolVote(2, MaxTs)}

\* The calls that have been made
CallsStarted == {x.call : x \in inflight} \cup {events[i].call : i \in DOMAIN events}

\* A call that looked for the duplicate before it awaited the validation
FinishApply_CheckedAtCall(d, x) ==
    IF IsValidMessage(x.msg) /\ x.new
    THEN [db |-> [StoreMessage(d, x.msg) EXCEPT
                     !.processed = @ \cup {MessageKey(x.msg)},
                     !.lastSync = UpdateLastSync(@, x.msg.timestamp)],
          ret |-> TRUE]
    ELSE [db |-> d, ret |-> FALSE]

\* applyMessage once the validation has answered
FinishApply(d, x) == [db |-> ApplyState(d, x.msg), ret |-> ApplyResult(d, x.msg)]

\* applyMessage(m) is called: by the forum action or by the network
CallApply(c, m) ==
    /\ c \notin CallsStarted
    /\ inflight' = inflight \cup
          {[call |-> c, msg |-> m, new |-> MessageKey(m) \notin db["A"].processed]}
    /\ UNCHANGED <<db, last, probe, now, delegation, out, signedLog, pending, sent>>
    /\ UNCHANGED local
    /\ UNCHANGED <<result, writes, durable, accepted, snapshot, job, events, listeners, notices>>

\* The call resumes: duplicate check, cache, IndexedDB write issued, return
ReturnApply(x) ==
    /\ x \in inflight
    /\ LET f == FinishApply(db["A"], x) IN
          /\ db' = [db EXCEPT !["A"] = f.db]
          /\ writes' = IF f.ret THEN Append(writes, x.msg) ELSE writes
          /\ accepted' = IF f.ret THEN Append(accepted, x.msg) ELSE accepted
          /\ events' = Append(events, [call |-> x.call, msg |-> x.msg, new |-> x.new, ret |-> f.ret])
    /\ inflight' = inflight \ {x}
    /\ UNCHANGED <<last, probe, now, delegation, out, signedLog, pending, sent>>
    /\ UNCHANGED local
    /\ UNCHANGED <<result, durable, snapshot, job, listeners, notices>>

NextOverlap ==
    \/ \E c \in ApplyCalls, m \in OverlapPool : CallApply(c, m)
    \/ \E x \in inflight : ReturnApply(x)
    \/ WriteDone

SpecOverlap == Init /\ [][NextOverlap]_vars

\* The replica after each message of a sequence has been applied once
RECURSIVE AppliedOnce(_, _)
AppliedOnce(d, s) ==
    IF s = <<>> THEN d ELSE AppliedOnce(ApplyState(d, Head(s)), Tail(s))

\* C32: of the applyMessage calls made for one message, overlapping or not,
\* at most one returns true, and the indexes, the processed keys and lastSync
\* are those of applying each accepted message once; the write to IndexedDB
\* is issued once per message.
OverlappingAppliesCountOnce ==
    /\ \A i, j \in DOMAIN events :
          (events[i].msg = events[j].msg /\ events[i].ret /\ events[j].ret) => i = j
    /\ \A i, j \in DOMAIN accepted : accepted[i] = accepted[j] => i = j
    /\ db["A"] = AppliedOnce(EmptyDatabase, accepted)
    /\ Len(accepted) = Cardinality({i \in DOMAIN events : events[i].ret})

\* Two calls for one vote were both waiting for their validation; the first
\* has returned true and the second, which had found no duplicate when it was
\* called, has returned false
OverlappedCallsReturned ==
    \E i, j \in DOMAIN events :
        /\ i < j
        /\ events[i].msg = events[j].msg
        /\ events[i].msg.type = "vote"
        /\ events[i].ret /\ ~events[j].ret
        /\ events[j].new

-----------------------------------------------------------------------------
\* Two messages of one id, delivered to two replicas in either order

\* Cell 1 published again with a later timestamp and another name
RepublishedCell ==
    SignDelegated(Unsigned("cell", 1, MaxTs, "0xW1", CellBody("random")), "K2", "0xW1", PeerExpiry)

\* Comment 1 published again with an earlier timestamp and another text
RepublishedComment ==
    SignAnonymous(Unsigned("comment", 1, 1, "uuid4-a", CommentBody(1, 1)), "K1")

SameIdPool ==
    {PoolCell, RepublishedCell, PoolPost, RepublishedPost, PoolComment, RepublishedComment}

NextSameId == \E r \in Replicas, m \in SameIdPool : Deliver(r, m)

SpecSameId == Init /\ [][NextSameId]_vars

\* C33, as claimed: of two valid cells, posts or comments that carry one id
\* and differ in timestamp or content, the one kept under that id is the
\* same whichever was applied first: replicas that have accepted the same
\* messages hold the same cells, posts and comments.
SameIdSameRetained ==
    db["A"].processed = db["B"].processed =>
        /\ db["A"].cells = db["B"].cells
        /\ db["A"].posts = db["B"].posts
        /\ db["A"].comments = db["B"].comments

-----------------------------------------------------------------------------
-----------------------------------------------------------------------------
\* C35, as claimed: every message in an index that open() has hydrated has
\* its type:id:timestamp key among the processed keys, so that a message
\* accepted before the restart and delivered again after it is refused as a
\* duplicate and changes nothing.
HydratedMessagesAreProcessed ==
    /\ [](\A m \in Stored(db["A"]) : MessageKey(m) \in db["A"].processed)
    /\ [][\A m \in RestartPool :
              (CompleteReceive(m) /\ snapshot # {} /\ m \in Stored(db["A"]))
              => (db' = db /\ accepted' = accepted /\ writes' = writes)]_vars

-----------------------------------------------------------------------------
\* The delivery confirmation and the application's own markPending

HasEvent(ev, m) == \E i \in DOMAIN events : events[i].ev = ev /\ events[i].key = MessageKey(m)

\* MessageManager: the network confirms the delivery of a sent message, once
Delivered(m) ==
    /\ m \in sent
    /\ ~HasEvent("ack", m)
    /\ ClearPending(m.id)
    /\ events' = Append(events, Event("ack", m))
    /\ UNCHANGED <<db, last, probe, now, delegation, out, signedLog, sent>>
    /\ UNCHANGED local
    /\ UNCHANGED <<result, inflight, writes, durable, accepted, snapshot, job, listeners>>

\* The application, after createPost has returned success:
\* client.database.markPending(result.data.id)
AppMarkPending(m) ==
    /\ job = NoJob
    /\ result.success
    /\ m \in sent
    /\ ~HasEvent("appMarkPending", m)
    /\ MarkPending(m.id)
    /\ events' = Append(events, Event("appMarkPending", m))
    /\ UNCHANGED <<db, last, probe, now, delegation, out, signedLog, sent>>
    /\ UNCHANGED local
    /\ UNCHANGED <<result, inflight, writes, durable, accepted, snapshot, job, listeners>>

CreatePostRequest == [op |-> "createPost", cellId |-> PeerCellId]

NextAck ==
    \/ DelegateAnonymous("7days", "K1", "uuid4-a")
    \/ \E a \in ClientWallets : Delegate(a, "7days", "K1")
    \/ \E user \in SessionUsers : job = NoJob /\ StartAction(CreatePostRequest, user)
    \/ BeginApply
    \/ CompleteApply
    \/ MarkPendingStep
    \/ UpdateCallback
    \/ \E available \in BOOLEAN : SendMessage(available)
    \/ \E m \in sent : Delivered(m)
    \/ \E m \in sent : AppMarkPending(m)

\* Every step of an action, the confirmation of a sent message and the
\* application's statement after the action are taken in the end
FairAck ==
    /\ WF_vars(BeginApply) /\ WF_vars(CompleteApply) /\ WF_vars(MarkPendingStep)
    /\ WF_vars(UpdateCallback) /\ WF_vars(\E available \in BOOLEAN : SendMessage(available))
    /\ WF_vars(\E m \in sent : Delivered(m))
    /\ WF_vars(\E m \in sent : AppMarkPending(m))

SpecAck == Init /\ [][NextAck]_vars /\ FairAck

\* The delivery of the message of this id has been confirmed
Confirmed(id) == \E i \in DOMAIN events : events[i].ev = "ack" /\ events[i].key[2] = id

\* C36, as claimed: an id that was marked pending and whose message the
\* network has confirmed is in the end not pending and stays so, however the
\* confirmation falls among the markPending of the action and the
\* markPending the application makes after the action has returned.
ConfirmedIdLeavesPending ==
    \A id \in ClientPostIds : [](Confirmed(id) => <>[](id \notin pending))

-----------------------------------------------------------------------------
\* DelegationManager.getStatus

\* The addresses getStatus is asked about; {} when currentAddress is left out
StatusAddresses == {{}} \cup {{a} : a \in Wallets \cup {"uuid4-a"}}

\* A status that does not look at currentAddress
DelegationStatus_IgnoresAddress(stored, currentAddress, clock) ==
    [op |-> "getStatus", currentAddress |-> currentAddress, at |-> clock,
     hasDelegation |-> stored # {},
     isValid |-> \E d \in stored : clock < d.expiryTimestamp,
     timeRemaining |-> {Max(0, d.expiryTimestamp - clock) : d \in stored},
     address |-> {UserAddress(d) : d \in stored}]

\* DelegationFullStatus of the stored delegation
DelegationStatus(stored, currentAddress, clock) ==
    [op |-> "getStatus", currentAddress |-> currentAddress, at |-> clock,
     hasDelegation |-> stored # {},
     isValid |-> \E d \in stored :
                    /\ clock < d.expiryTimestamp
                    /\ \A a \in currentAddress : UserAddress(d) = a,
     timeRemaining |-> {Max(0, d.expiryTimestamp - clock) : d \in stored},
     address |-> {UserAddress(d) : d \in stored}]

\* client.delegation.getStatus(currentAddress)
GetStatus(currentAddress) ==
    /\ result' = DelegationStatus(delegation, currentAddress, now)
    /\ UNCHANGED <<db, last, probe, now, delegation, out, signedLog, pending, sent>>
    /\ UNCHANGED local
    /\ UNCHANGED <<inflight, writes, durable, accepted, snapshot, job, events, listeners, notices>>

NextStatus ==
    \/ \E a \in ClientWallets, d \in Durations : Delegate(a, d, "K1")
    \/ \E d \in Durations : DelegateAnonymous(d, "K1", "uuid4-a")
    \/ Clear
    \/ Tick
    \/ \E a \in StatusAddresses : GetStatus(a)

SpecStatus == Init /\ [][NextStatus]_vars

\* C37: getStatus reports hasDelegation = false while no delegation is stored
\* (before the first one and after clear()); it reports isValid = true only
\* while a delegation is stored, the time is before its expiry and the
\* address asked about, if any, is the delegation's; and a stored delegation
\* that has expired does not become valid again: isValid stays false until a
\* new delegation is created.
StatusFollowsStoredDelegation ==
    /\ [][\A a \in StatusAddresses : GetStatus(a) =>
              /\ delegation = {} => (~result'.hasDelegation /\ ~result'.isValid)
              /\ result'.hasDelegation <=> delegation # {}
              /\ result'.isValid <=>
                    \E d \in delegation :
                        /\ now < d.expiryTimestamp
                        /\ \A x \in a : UserAddress(d) = x]_vars
    /\ [][(/\ delegation' = delegation
           /\ \E d \in delegation : now >= d.expiryTimestamp)
          => \A a \in StatusAddresses :
                ~DelegationStatus(delegation', a, now').isValid]_vars
    /\ [](result.op = "getStatus" =>
             (result.isValid =>
                 /\ result.hasDelegation
                 /\ \A t \in result.timeRemaining : t > 0
                 /\ result.currentAddress \subseteq result.address))

\* getStatus was asked about the wallet of the stored delegation after the
\* expiry and has answered hasDelegation without isValid
ExpiredStatusReported ==
    /\ result.op = "getStatus"
    /\ result.hasDelegation /\ ~result.isValid
    /\ result.currentAddress = result.address
    /\ result.timeRemaining = {0}
    /\ delegation # {}

-----------------------------------------------------------------------------
\* Overlapping toggleFollow calls: a call runs up to its await of the
\* database write, and returns when the write has completed

ToggleCalls == {1, 2, 3}

\* The toggleFollow calls made so far
TogglesStarted == {x.call : x \in inflight} \cup {events[i].call : i \in DOMAIN events}

\* A database that touches its cache only when the write has completed
BeforeAwait_CacheNotYetWritten(map, userId, followedAddress, clock) ==
    [following |-> map, ret |-> ~IsFollowing(map, userId, followedAddress)]

\* toggleFollow up to the await: isFollowing is read, and addFollowing or
\* removeFollowing updates the cache at once and issues the IndexedDB write
BeforeAwait(map, userId, followedAddress, clock) ==
    ToggleFollowService(map, userId, followedAddress, clock)

\* useContent().toggleFollow is called
CallToggle(c, user, followedAddress) ==
    /\ c \notin TogglesStarted
    /\ \E u \in user :
          LET t == BeforeAwait(following, u.address, followedAddress, now) IN
          /\ following' = t.following
          /\ inflight' = inflight \cup
                {[call |-> c, userId |-> u.address, followedAddress |-> followedAddress,
                  was |-> IsFollowing(following, u.address, followedAddress),
                  overlaps |-> {x.call : x \in inflight},
                  order |-> Cardinality(TogglesStarted), ret |-> t.ret]}
    /\ UNCHANGED <<db, last, probe, now, delegation, out, signedLog, pending, sent>>
    /\ UNCHANGED <<result, writes, durable, accepted, snapshot, job, events>>
    /\ UNCHANGED <<listeners, notices, identity, bookmarks, scoring>>

\* The write has completed: the call returns
ReturnToggle(x) ==
    /\ x \in inflight
    /\ inflight' = inflight \ {x}
    /\ events' = Append(events, x)
    /\ result' = FollowReturn("toggleFollow", {User(x.userId, "anonymous")},
                              x.followedAddress, x.ret)
    /\ UNCHANGED <<db, last, probe, now, delegation, out, signedLog, pending, sent>>
    /\ UNCHANGED <<writes, durable, accepted, snapshot, job>>
    /\ UNCHANGED <<listeners, notices, identity, following, bookmarks, scoring>>

NextToggle ==
    \/ \E user \in SessionUsers \ {{}}, a \in FollowedAddresses :
          TogglesStarted = {} /\ FollowUser(user, a)
    \/ \E c \in ToggleCalls, user \in SessionUsers \ {{}}, a \in FollowedAddresses :
          CallToggle(c, user, a)
    \/ \E x \in inflight : ReturnToggle(x)
    \/ Tick

SpecToggle == Init /\ [][NextToggle]_vars

\* The calls that have returned, and those made for one pair
Returned == {events[i] : i \in DOMAIN events}
TogglesOf(userId, followedAddress) ==
    {x \in inflight \cup Returned : x.userId = userId /\ x.followedAddress = followedAddress}

\* C38: two toggleFollow calls for one (user, address), the second made
\* before the first has returned, leave the user following exactly if the
\* user was following before the first, and return opposite values, as two
\* calls made one after the other do.
OverlappingTogglesCancel ==
    \A x, y \in Returned :
        (/\ x.call # y.call
         /\ x.userId = y.userId /\ x.followedAddress = y.followedAddress
         /\ TogglesOf(x.userId, x.followedAddress) = {x, y})
        => /\ x.ret # y.ret
           /\ x.order < y.order =>
                 (IsFollowing(following, x.userId, x.followedAddress) <=> x.was)

\* Two calls for one address overlapped, the user following it before, and
\* both have returned
OverlappedTogglesReturned ==
    \E x, y \in Returned :
        /\ x.userId = y.userId /\ x.followedAddress = y.followedAddress
        /\ x.call \in y.overlaps
        /\ x.was
        /\ TogglesOf(x.userId, x.followedAddress) = {x, y}

-----------------------------------------------------------------------------
\* The Following records of one (userId, followedAddress)
RecordsOf(map, userId, followedAddress) ==
    {k \in DOMAIN map : map[k].userId = userId /\ map[k].followedAddress = followedAddress}

\* C39: a (userId, followedAddress) pair has at most one Following record,
\* stored under the id made of the two; following an address that is followed
\* already leaves exactly one record of the pair, and unfollowing an address
\* that is not followed changes nothing.
OneRecordPerPair ==
    /\ [](\A k \in DOMAIN following :
              /\ following[k].id = k
              /\ k = <<following[k].userId, following[k].followedAddress>>
              /\ RecordsOf(following, following[k].userId, following[k].followedAddress) = {k})
    /\ [][\A user \in SessionUsers, a \in FollowedAddresses : \A u \in user :
              /\ (FollowUser(user, a) /\ RecordsOf(following, u.address, a) # {})
                    => /\ DOMAIN following' = DOMAIN following
                       /\ Cardinality(RecordsOf(following', u.address, a)) = 1
              /\ (UnfollowUser(user, a) /\ RecordsOf(following, u.address, a) = {})
                    => following' = following]_vars

\* Two users of the device follow the same address, each with one record,
\* and the last call was a successful followUser
TwoUsersFollowOneAddress ==
    /\ result.op = "followUser" /\ result.success
    /\ \E k1, k2 \in DOMAIN following :
          /\ k1 # k2
          /\ following[k1].followedAddress = following[k2].followedAddress
          /\ following[k1].followedAddress = result.target
    /\ Cardinality(DOMAIN following) = 2

-----------------------------------------------------------------------------
(* useContent.cellsWithStats: the statistics of the cells, memoised on the
   cells, posts and comments of the store *)

\* const recentWindowMs = 7 * 24 * 60 * 60 * 1000
RecentWindowMs == 7 * 24 * 60 * 60 * 1000

\* One tick of the clock, and one step of a timestamp, is seven days
TickMs == RecentWindowMs

\* Object.values(map)
ObjectValues(map) == {map[k] : k \in DOMAIN map}

\* content.cells, content.posts, content.comments of a replica
Content(d) == [cells |-> ObjectValues(d.cells), posts |-> ObjectValues(d.posts), comments |-> ObjectValues(d.comments)]

\* now - x.timestamp <= recentWindowMs
IsRecent(x, clock) == (clock - x.timestamp) * TickMs <= RecentWindowMs

\* The posts the first loop adds to byCell[cellId]
StatPosts(content, cellId) == {p \in content.posts : p.body.cellId = cellId}

\* The comments the second loop adds to byCell[cellId]: those whose post is
\* found, under the cell of that post
StatComments(content, cellId) ==
    {c \in content.comments :
        \E post \in content.posts : post.id = c.body.postId /\ post.body.cellId = cellId}

\* byCell[cellId] || {postCount: 0, activeUsers: new Set(), recentActivity: 0}
CellStats(content, cellId, clock) ==
    [postCount |-> Cardinality(StatPosts(content, cellId)),
     activeUsers |-> Cardinality({x.author : x \in StatPosts(content, cellId)
                                                   \cup StatComments(content, cellId)}),
     recentActivity |-> Cardinality({x \in StatPosts(content, cellId)
                                            \cup StatComments(content, cellId) :
                                        IsRecent(x, clock)})]

\* content.cells.map(cell => ({...cell, postCount, activeUsers, recentActivity}))
CellsWithStats(content, clock) ==
    [id \in {cell.id : cell \in content.cells} |-> CellStats(content, id, clock)]

\* React.useMemo(..., [content.cells, content.posts, content.comments]): the
\* value is computed anew when one of the three has changed, and kept otherwise
UseMemo(memo, content, clock) ==
    IF memo.op = "cellsWithStats" /\ memo.deps = content
    THEN memo
    ELSE [op |-> "cellsWithStats", success |-> TRUE, error |-> "",
          deps |-> content, value |-> CellsWithStats(content, clock)]

\* A message arrives, the store follows the cache and the hook renders
Ingest(m) ==
    /\ db' = [db EXCEPT !["A"] = ApplyState(db["A"], m)]
    /\ result' = UseMemo(result, Content(db'["A"]), now)
    /\ UNCHANGED <<last, probe, now, delegation, out, signedLog, pending, sent>>
    /\ UNCHANGED <<inflight, writes, durable, accepted, snapshot, job, events>>
    /\ UNCHANGED <<listeners, notices, identity, following, bookmarks, scoring>>

\* The hook renders again for another reason (a pending id has changed)
Render ==
    /\ result' = UseMemo(result, Content(db["A"]), now)
    /\ UNCHANGED <<db, last, probe, now, delegation, out, signedLog, pending, sent>>
    /\ UNCHANGED <<inflight, writes, durable, accepted, snapshot, job, events>>
    /\ UNCHANGED <<listeners, notices, identity, following, bookmarks, scoring>>

\* A second cell, a post of another author in cell 1, and comments: one on
\* post 1 by the wallet, one on a post nobody has
StatsCell == SignDelegated(Unsigned("cell", 2, 1, "0xW1", CellBody("random")), "K2", "0xW1", PeerExpiry)
StatsPost == SignDelegated(Unsigned("post", 2, MaxTs, "0xW1", PostBody(1, 2, 5)), "K2", "0xW1", PeerExpiry)
StatsComment == SignDelegated(Unsigned("comment", 2, 1, "0xW1", CommentBody(1, 5)), "K2", "0xW1", PeerExpiry)
OrphanComment == SignAnonymous(Unsigned("comment", 3, MaxTs, "uuid4-a", CommentBody(7, 5)), "K1")

StatsPool == {PoolCell, StatsCell, PoolPost, StatsPost, PoolComment, StatsComment, OrphanComment}

NextStats ==
    \/ \E m \in StatsPool : Ingest(m)
    \/ Render
    \/ Tick

SpecStats == Init /\ [][NextStats]_vars

\* C40, as claimed: for every cell, cellsWithStats reports the number of its
\* posts, the number of distinct authors of those posts and of the comments
\* on them, and the number of those posts and comments whose timestamp lies
\* within the last seven days; a comment whose post is absent counts toward no
\* cell, and a cell with no posts reports 0 for all three.
StatsCountTheLastSevenDays ==
    (result.op = "cellsWithStats" /\ result.deps = Content(db["A"])) =>
        \A cell \in Content(db["A"]).cells :
            LET posts == {p \in ObjectValues(db["A"].posts) : p.body.cellId = cell.id}
                comments == {c \in ObjectValues(db["A"].comments) : c.body.postId \in {p.id : p \in posts}}
                reported == result.value[cell.id]
            IN  /\ reported.postCount = Cardinality(posts)
                /\ reported.activeUsers = Cardinality({x.author : x \in posts \cup comments})
                /\ reported.recentActivity =
                      Cardinality({x \in posts \cup comments :
                                      (now - x.timestamp) * TickMs <= RecentWindowMs})
                /\ posts = {} => reported = [postCount |-> 0, activeUsers |-> 0, recentActivity |-> 0]

=============================================================================
